---- MODULE Spec2Model ----
(***************************************************************************)
(* Model of zemartins81/rateLimiter: the RateLimiter engine (Allow,        *)
(* GetConfig), the Redis-backed store it drives (Increment, IsBlocked,     *)
(* Block, Reset, key expiry), the configuration loader and the RateLimit   *)
(* HTTP middleware.                                                        *)
(*                                                                         *)
(* Go strings that the code concatenates, splits or parses (identifiers,   *)
(* store keys, RemoteAddr, numeric environment values) are sequences of    *)
(* one-character strings.  Time is the store's clock in whole seconds.     *)
(***************************************************************************)
EXTENDS Integers, Sequences, FiniteSets, TLC

VARIABLES
    store,          \* the Redis keyspace: key -> [kind, num, str, ttl]
    limiterConfig,  \* RateLimiter.limiterConfig, set by NewRateLimiter
    env,            \* the process environment LoadConfigRateLimiter reads
    calls,          \* per goroutine: the Allow invocation in progress
    ncalls,         \* number of Allow invocations started so far
    got,            \* per goroutine: outcome of its last GetConfig call
    http,           \* per goroutine: the middleware request being served
    run,            \* per identity: decisions since it was last fresh
    blockAge,       \* per identity: seconds since its marker was written
    omit,           \* the identity whose calls the reference run leaves out
    sstore,         \* keyspace of the reference run
    scalls,         \* Allow invocations of the reference run
    forwarded,      \* per X-Forwarded-For address: token-less requests served
    issued,         \* per identity: counts returned while its counter lives
    engines,        \* per goroutine: limiterConfig of the instance it calls
    probe           \* two (class, identifier, kind of key) and their keys

vars == <<store, limiterConfig, env, calls, ncalls, got, http,
          run, blockAge, omit, sstore, scalls, forwarded, issued,
          engines, probe>>

----------------------------------------------------------------------------
(* Bounds of the model *)

NProcs == 2
MaxCalls == 3
CfgMaxRequestsPerIP == 2
CfgMaxRequestsPerToken == 1
CfgBlockDurationIPSeconds == 2
CfgBlockDurationTokenSeconds == 3
MaxWindow == 2
MaxPieces == 2

(* Program constants *)

WindowSeconds == 1
StatusOK == 200
StatusTooManyRequests == 429
StatusInternalServerError == 500

NoExpiry == 0 - 1

Procs == 1..NProcs

Identifiers == { <<"a">>, <<"b">> }

\* an identity is <<isToken, identifier>>
Identities == BOOLEAN \X Identifiers

Min(a, b) == IF a < b THEN a ELSE b

----------------------------------------------------------------------------
(* Configuration value object *)

LimiterConfig(maxIP, maxToken, durIP, durToken, header) ==
    [ MaxRequestsPerIP          |-> maxIP,
      MaxRequestsPerToken       |-> maxToken,
      BlockDurationIPSeconds    |-> durIP,
      BlockDurationTokenSeconds |-> durToken,
      TokenHeaderName           |-> header ]

ApiKeyHeader == <<"A", "P", "I", "_", "K", "E", "Y">>

\* the configuration the tests construct the engine with
DefaultConfig ==
    LimiterConfig(CfgMaxRequestsPerIP, CfgMaxRequestsPerToken,
                  CfgBlockDurationIPSeconds, CfgBlockDurationTokenSeconds,
                  ApiKeyHeader)

----------------------------------------------------------------------------
(* strconv.Atoi on a string of characters *)

DigitChars == {"0", "1", "2", "3", "4", "5", "6", "7", "8", "9"}

DigitValue(ch) ==
    CASE ch = "0" -> 0 [] ch = "1" -> 1 [] ch = "2" -> 2 [] ch = "3" -> 3
      [] ch = "4" -> 4 [] ch = "5" -> 5 [] ch = "6" -> 6 [] ch = "7" -> 7
      [] ch = "8" -> 8 [] ch = "9" -> 9

RECURSIVE DecimalValue(_)
DecimalValue(s) ==
    IF s = <<>> THEN 0
    ELSE 10 * DecimalValue(SubSeq(s, 1, Len(s) - 1)) + DigitValue(s[Len(s)])

\* an optional sign, then one or more decimal digits; anything else is an
\* error
Atoi(s) ==
    LET signed == s # <<>> /\ s[1] \in {"+", "-"}
        digits == IF signed THEN Tail(s) ELSE s
        ok     == digits # <<>> /\ \A i \in 1..Len(digits) :
                                      digits[i] \in DigitChars
    IN  IF ~ok THEN [ok |-> FALSE, val |-> 0]
        ELSE [ok  |-> TRUE,
              val |-> IF signed /\ s[1] = "-" THEN 0 - DecimalValue(digits)
                                              ELSE DecimalValue(digits)]

----------------------------------------------------------------------------
(* LoadConfigRateLimiter: the environment is a record of whether the .env  *)
(* file can be loaded and of the value of each variable (empty if unset).  *)

EnvNames == {"MAX_REQUESTS_PER_IP", "MAX_REQUESTS_PER_TOKEN",
             "BLOCK_DURATION_IP_SECONDS", "BLOCK_DURATION_TOKEN_SECONDS",
             "TOKEN_HEADER_NAME"}

OrDefault(value, default) == IF value = <<>> THEN default ELSE value

ZeroConfig == LimiterConfig(0, 0, 0, 0, <<>>)

\* the variables in the order LoadConfigRateLimiter reads them
ConfigOrder ==
    <<"MAX_REQUESTS_PER_IP", "MAX_REQUESTS_PER_TOKEN",
      "BLOCK_DURATION_IP_SECONDS", "BLOCK_DURATION_TOKEN_SECONDS",
      "TOKEN_HEADER_NAME">>

\* the value the loader takes for a variable that is unset or empty
EnvDefault(name) ==
    CASE name = "MAX_REQUESTS_PER_IP"          -> <<"5">>
      [] name = "MAX_REQUESTS_PER_TOKEN"       -> <<"1", "0">>
      [] name = "BLOCK_DURATION_IP_SECONDS"    -> <<"3", "0", "0">>
      [] name = "BLOCK_DURATION_TOKEN_SECONDS" -> <<"3", "0", "0">>
      [] OTHER                                 -> ApiKeyHeader

\* the integer read for a variable kept for the field of the result
SetField(cfg, name, val) ==
    CASE name = "MAX_REQUESTS_PER_IP" ->
             [cfg EXCEPT !.MaxRequestsPerIP = val]
      [] name = "MAX_REQUESTS_PER_TOKEN" ->
             [cfg EXCEPT !.MaxRequestsPerToken = val]
      [] name = "BLOCK_DURATION_IP_SECONDS" ->
             [cfg EXCEPT !.BlockDurationIPSeconds = val]
      [] OTHER ->
             [cfg EXCEPT !.BlockDurationTokenSeconds = val]

\* A load in progress or finished: status is "none" while it runs, then
\* "ok", "error" or "panic"; config holds the values read so far; at is
\* the position in ConfigOrder of the variable read next, 0 when none is.
NoConfig == [status |-> "none", config |-> ZeroConfig, at |-> 0]

\* godotenv.Load: the loader panics when the file cannot be loaded
LoadStart(e) ==
    IF ~e.file THEN [NoConfig EXCEPT !.status = "panic"]
               ELSE [NoConfig EXCEPT !.at = 1]

\* one os.Getenv and the conversion of its value: the loader returns the
\* error of the first value that is no integer, and its result after the
\* last variable
LoadRead(g, e) ==
    LET name  == ConfigOrder[g.at]
        value == OrDefault(e.vars[name], EnvDefault(name))
    IN  IF name = "TOKEN_HEADER_NAME"
        THEN [status |-> "ok",
              config |-> [g.config EXCEPT !.TokenHeaderName = value],
              at     |-> 0]
        ELSE IF ~Atoi(value).ok
        THEN [NoConfig EXCEPT !.status = "error"]
        ELSE [g EXCEPT !.config = SetField(@, name, Atoi(value).val),
                       !.at = @ + 1]

\* the rest of a load during which the environment stays e
RECURSIVE LoadFrom(_, _)
LoadFrom(g, e) == IF g.at = 0 THEN g ELSE LoadFrom(LoadRead(g, e), e)

\* LoadConfigRateLimiter in an environment nothing changes meanwhile
LoadConfigRateLimiter(e) == LoadFrom(LoadStart(e), e)

\* RateLimiter.GetConfig panics on the error of the loader
Panics(g) ==
    IF g.status = "error" THEN [NoConfig EXCEPT !.status = "panic"] ELSE g

\* RateLimiter.GetConfig: loads the configuration again and panics when
\* loading fails
GetConfig(e) == Panics(LoadConfigRateLimiter(e))

----------------------------------------------------------------------------
(* Allow: selection of the class parameters and derivation of the keys *)
\* variant: each class is judged with the limit of the other
MaxRequests_swapped(cfg, isToken) ==
    IF isToken THEN cfg.MaxRequestsPerIP ELSE cfg.MaxRequestsPerToken

\* variant: Allow takes the limit from rl.GetConfig(), which loads the
\* environment as it is when the call is made
MaxRequests_reloaded(cfg, isToken) ==
    IF isToken THEN GetConfig(env).config.MaxRequestsPerToken
               ELSE GetConfig(env).config.MaxRequestsPerIP

MaxRequests(cfg, isToken) ==
    IF isToken THEN cfg.MaxRequestsPerToken ELSE cfg.MaxRequestsPerIP

BlockDuration_swapped(cfg, isToken) ==
    IF isToken THEN cfg.BlockDurationIPSeconds
               ELSE cfg.BlockDurationTokenSeconds

BlockDuration(cfg, isToken) ==
    IF isToken THEN cfg.BlockDurationTokenSeconds
               ELSE cfg.BlockDurationIPSeconds

\* variant: keys by address carry no prefix
KeyPrefix_bare(isToken) ==
    IF isToken THEN <<"t", "o", "k", "e", "n", "_">> ELSE <<>>

KeyPrefix_same(isToken) == <<"i", "p", "_">>

KeyPrefix(isToken) ==
    IF isToken THEN <<"t", "o", "k", "e", "n", "_">> ELSE <<"i", "p", "_">>

Key_shared(identifier, isToken) == KeyPrefix(isToken)

Key(identifier, isToken) == KeyPrefix(isToken) \o identifier

BlockedKey_plain(key) == <<"b", "l", "o", "c", "k", "_">> \o key

BlockedKey(key) == <<"b", "l", "o", "c", "k", "e", "d", "_">> \o key

\* the key Allow builds for the counter or the block marker of an
\* identifier of a class
StoreKey(t) ==
    IF t.marker THEN BlockedKey(Key(t.identifier, t.isToken))
                ELSE Key(t.identifier, t.isToken)

----------------------------------------------------------------------------
(* The Redis store.  A keyspace is a function from the keys that exist to  *)
(* their entries; ttl is the remaining life in seconds, NoExpiry for none. *)

IntEntry(n, ttl) == [kind |-> "int", num |-> n, str |-> "", ttl |-> ttl]
StrEntry(s, ttl) == [kind |-> "str", num |-> 0, str |-> s, ttl |-> ttl]

EmptyStore == [k \in {} |-> IntEntry(0, NoExpiry)]

Put(st, key, entry) ==
    [k \in DOMAIN st \cup {key} |-> IF k = key THEN entry ELSE st[k]]

Del(st, key) == [k \in DOMAIN st \ {key} |-> st[k]]

\* An error is the chain of its messages, outermost first; nil is empty.
ErrNil == <<>>

\* fmt.Errorf("<label>: %w", err): the label in front of the wrapped error
Errorf(label, err) == <<label>> \o err

\* the messages of the store's own errors
ErrStoreGet == "erro ao verificar chave de bloqueio no Redis"
ErrStoreEval == "erro ao executar script Lua INCR com EXPIRE"
ErrStoreResult == "resultado inesperado do script Lua"
ErrStoreSet == "erro ao definir chave de bloqueio no Redis"
ErrStoreDel == "erro ao deletar chave no Redis"

\* what the client reports for a failed command: the connection failed
\* ("err"), the context ended while the reply was awaited ("late"), or
\* the server replied with an error
Causes == {"connection refused", "context canceled", "WRONGTYPE"}

Cause(outcome) ==
    CASE outcome = "err"  -> "connection refused"
      [] outcome = "late" -> "context canceled"
      [] OTHER            -> "WRONGTYPE"

\* the error a store method returns for a failed command
StoreError(label, outcome) == Errorf(label, <<Cause(outcome)>>)

\* RedisStore.IsBlocked: GET key; redis.Nil means not blocked
StoreIsBlocked(st, key) ==
    /\ key \in DOMAIN st
    /\ st[key].kind = "str"
    /\ st[key].str = "blocked"

\* variant: every increment restarts the expiry of the key
StoreIncrement_sliding(st, key, window) ==
    LET cur == IF key \in DOMAIN st THEN st[key].num ELSE 0
    IN  IF key \in DOMAIN st /\ st[key].kind # "int"
        THEN [store |-> st, count |-> 0, ok |-> FALSE]
        ELSE [store |-> IF window > 0
                        THEN Put(st, key, IntEntry(cur + 1, window))
                        ELSE Del(st, key),
              count |-> cur + 1, ok |-> TRUE]

\* variant: the counter is created without an expiry
StoreIncrement_unarmed(st, key, window) ==
    LET cur == IF key \in DOMAIN st THEN st[key].num ELSE 0
        ttl == IF key \in DOMAIN st THEN st[key].ttl ELSE NoExpiry
    IN  IF key \in DOMAIN st /\ st[key].kind # "int"
        THEN [store |-> st, count |-> 0, ok |-> FALSE]
        ELSE [store |-> Put(st, key, IntEntry(cur + 1, ttl)),
              count |-> cur + 1, ok |-> TRUE]

\* variant: the increment of a live counter is returned but not stored
StoreIncrement_lossy(st, key, window) ==
    LET cur == IF key \in DOMAIN st THEN st[key].num ELSE 0
    IN  IF key \in DOMAIN st /\ st[key].kind # "int"
        THEN [store |-> st, count |-> 0, ok |-> FALSE]
        ELSE IF cur = 0
             THEN [store |-> IF window > 0
                             THEN Put(st, key, IntEntry(1, window))
                             ELSE st,
                   count |-> 1, ok |-> TRUE]
             ELSE [store |-> st, count |-> cur + 1, ok |-> TRUE]

\* RedisStore.Increment: the Lua script, one indivisible step.
\* INCR creates the key at 1 without expiry, EXPIRE follows when the
\* result is 1.
StoreIncrement(st, key, window) ==
    LET cur  == IF key \in DOMAIN st THEN st[key].num ELSE 0
        ttl  == IF key \in DOMAIN st THEN st[key].ttl ELSE NoExpiry
        val  == cur + 1
        incr == Put(st, key, IntEntry(val, ttl))
    IN  IF key \in DOMAIN st /\ st[key].kind # "int"
        THEN [store |-> st, count |-> 0, ok |-> FALSE]
        ELSE IF val = 1
             THEN [store |-> IF window > 0
                             THEN Put(st, key, IntEntry(val, window))
                             ELSE Del(incr, key),
                   count |-> val, ok |-> TRUE]
             ELSE [store |-> incr, count |-> val, ok |-> TRUE]

\* variant: a result that is not an integer is reported like a failed
\* command
RedisIncrement_uniform(st, key, window, outcome) ==
    LET r == StoreIncrement(st, key, window)
    IN  CASE outcome = "err" ->
                 [store |-> st, count |-> 0,
                  err |-> StoreError(ErrStoreEval, outcome)]
          [] outcome = "late" ->
                 [store |-> r.store, count |-> 0,
                  err |-> StoreError(ErrStoreEval, outcome)]
          [] outcome = "odd" ->
                 [store |-> r.store, count |-> 0,
                  err |-> StoreError(ErrStoreEval, "err")]
          [] OTHER ->
                 IF r.ok
                 THEN [store |-> r.store, count |-> r.count, err |-> ErrNil]
                 ELSE [store |-> st, count |-> 0,
                       err |-> StoreError(ErrStoreEval, "reply")]

\* RedisStore.Increment as its caller sees it: Eval fails before the
\* script runs ("err") or after it ("late"), the server replies with an
\* error (INCR on a key that holds no integer), the script's result is
\* not an integer ("odd"), or the count is returned
RedisIncrement(st, key, window, outcome) ==
    LET r == StoreIncrement(st, key, window)
    IN  CASE outcome = "err" ->
                 [store |-> st, count |-> 0,
                  err |-> StoreError(ErrStoreEval, outcome)]
          [] outcome = "late" ->
                 [store |-> r.store, count |-> 0,
                  err |-> StoreError(ErrStoreEval, outcome)]
          [] outcome = "odd" ->
                 [store |-> r.store, count |-> 0,
                  err |-> <<ErrStoreResult>>]
          [] OTHER ->
                 IF r.ok
                 THEN [store |-> r.store, count |-> r.count, err |-> ErrNil]
                 ELSE [store |-> st, count |-> 0,
                       err |-> StoreError(ErrStoreEval, "reply")]

StoreBlock_persistent(st, key, duration) ==
    Put(st, key, StrEntry("blocked", NoExpiry))

\* RedisStore.Block: SET key "blocked" with the duration as expiry; a
\* duration that is not positive sets no expiry
StoreBlock(st, key, duration) ==
    Put(st, key, StrEntry("blocked", IF duration > 0 THEN duration
                                                      ELSE NoExpiry))

\* RedisStore.Reset: DEL key
StoreReset(st, key) == Del(st, key)

\* One second passes on the store's clock: keys whose life ends are removed
StoreTick(st) ==
    LET live == { k \in DOMAIN st : st[k].ttl # 1 }
    IN  [k \in live |-> IF st[k].ttl > 1
                        THEN [st[k] EXCEPT !.ttl = st[k].ttl - 1]
                        ELSE st[k]]

----------------------------------------------------------------------------
(* RateLimiter.Allow, one store operation per step.                        *)

ErrIsBlocked == "erro ao verificar se está bloqueado"
ErrIncrement == "erro ao incrementar contador"
ErrBlock == "erro ao bloquear"

\* the limit check of Allow
OverLimit_inclusive(count, maxRequests) == count >= maxRequests

OverLimit(count, maxRequests) == count > maxRequests

IdleCall ==
    [pc |-> "idle", identifier |-> <<>>, isToken |-> FALSE, count |-> 0,
     allowed |-> FALSE, err |-> ErrNil, failed |-> "none",
     reply |-> "ok"]

NewCall(identifier, isToken) ==
    [IdleCall EXCEPT !.pc = "IsBlocked", !.identifier = identifier,
                     !.isToken = isToken]

Return(c, allowed, err) ==
    [c EXCEPT !.pc = "done", !.allowed = allowed, !.err = err]

\* variant: a failed IsBlocked denies the request without an error
AllowIsBlocked_failclosed(st, cfg, c, outcome) ==
    LET blockedKey == BlockedKey(Key(c.identifier, c.isToken))
    IN  IF outcome # "ok"
        THEN [store |-> st, call |-> Return(c, FALSE, ErrNil)]
        ELSE IF StoreIsBlocked(st, blockedKey)
             THEN [store |-> st, call |-> Return(c, FALSE, ErrNil)]
             ELSE [store |-> st, call |-> [c EXCEPT !.pc = "Increment"]]

AllowIsBlocked_ignored(st, cfg, c, outcome) ==
    IF outcome # "ok"
    THEN [store |-> st,
          call  |-> Return(c, FALSE,
                           Errorf(ErrIsBlocked,
                                  StoreError(ErrStoreGet, outcome)))]
    ELSE [store |-> st, call |-> [c EXCEPT !.pc = "Increment"]]

\* the step of Allow at c.pc, where outcome tells whether the store
\* operation succeeds ("ok"), fails before it reaches the server ("err"),
\* or fails at the client after the server has executed it ("late": the
\* context ends while the reply is awaited)
AllowIsBlocked(st, cfg, c, outcome) ==
    LET blockedKey == BlockedKey(Key(c.identifier, c.isToken))
    IN  IF outcome # "ok"
        THEN [store |-> st,
              call  |-> Return(c, FALSE,
                           Errorf(ErrIsBlocked,
                                  StoreError(ErrStoreGet, outcome)))]
        ELSE IF StoreIsBlocked(st, blockedKey)
             THEN [store |-> st, call |-> Return(c, FALSE, ErrNil)]
             ELSE [store |-> st, call |-> [c EXCEPT !.pc = "Increment"]]

AllowIncrement_failopen(st, cfg, c, outcome) ==
    LET key == Key(c.identifier, c.isToken)
        r   == StoreIncrement(st, key, WindowSeconds)
    IN  IF outcome # "ok" \/ ~r.ok
        THEN [store |-> st, call |-> Return(c, TRUE, ErrNil)]
        ELSE IF OverLimit(r.count, MaxRequests(cfg, c.isToken))
             THEN [store |-> r.store,
                   call  |-> [c EXCEPT !.pc = "Block", !.count = r.count]]
             ELSE [store |-> r.store,
                   call  |-> Return([c EXCEPT !.count = r.count],
                                    TRUE, ErrNil)]

AllowIncrement(st, cfg, c, outcome) ==
    LET key == Key(c.identifier, c.isToken)
        r   == RedisIncrement(st, key, WindowSeconds, outcome)
    IN  IF r.err # ErrNil
        THEN [store |-> r.store,
              call  |-> Return(c, FALSE, Errorf(ErrIncrement, r.err))]
        ELSE IF OverLimit(r.count, MaxRequests(cfg, c.isToken))
             THEN [store |-> r.store,
                   call  |-> [c EXCEPT !.pc = "Block", !.count = r.count]]
             ELSE [store |-> r.store,
                   call  |-> Return([c EXCEPT !.count = r.count],
                                    TRUE, ErrNil)]

\* variant: a failed Block is reported under the label of Increment
AllowBlock_mislabelled(st, cfg, c, outcome) ==
    LET blockedKey == BlockedKey(Key(c.identifier, c.isToken))
        blocked    == StoreBlock(st, blockedKey,
                                 BlockDuration(cfg, c.isToken))
    IN  IF outcome # "ok"
        THEN [store |-> IF outcome = "late" THEN blocked ELSE st,
              call  |-> Return(c, FALSE,
                               Errorf(ErrIncrement,
                                      StoreError(ErrStoreSet, outcome)))]
        ELSE [store |-> blocked, call |-> [c EXCEPT !.pc = "Reset"]]

AllowBlock_retry(st, cfg, c, outcome) ==
    LET blockedKey == BlockedKey(Key(c.identifier, c.isToken))
    IN  IF outcome # "ok"
        THEN [store |-> st, call |-> c]
        ELSE [store |-> StoreBlock(st, blockedKey,
                                   BlockDuration(cfg, c.isToken)),
              call  |-> [c EXCEPT !.pc = "Reset"]]

AllowBlock_resetting(st, cfg, c, outcome) ==
    LET key        == Key(c.identifier, c.isToken)
        blockedKey == BlockedKey(key)
    IN  IF outcome # "ok"
        THEN [store |-> StoreReset(st, key),
              call  |-> Return(c, FALSE,
                           Errorf(ErrBlock,
                                  StoreError(ErrStoreSet, outcome)))]
        ELSE [store |-> StoreBlock(st, blockedKey,
                                   BlockDuration(cfg, c.isToken)),
              call  |-> [c EXCEPT !.pc = "Reset"]]

AllowBlock_silent(st, cfg, c, outcome) ==
    LET blockedKey == BlockedKey(Key(c.identifier, c.isToken))
    IN  IF outcome # "ok"
        THEN [store |-> st, call |-> Return(c, FALSE, ErrNil)]
        ELSE [store |-> StoreBlock(st, blockedKey,
                                   BlockDuration(cfg, c.isToken)),
              call  |-> [c EXCEPT !.pc = "Reset"]]

AllowBlock(st, cfg, c, outcome) ==
    LET blockedKey == BlockedKey(Key(c.identifier, c.isToken))
        blocked    == StoreBlock(st, blockedKey,
                                 BlockDuration(cfg, c.isToken))
    IN  IF outcome # "ok"
        THEN [store |-> IF outcome = "late" THEN blocked ELSE st,
              call  |-> Return(c, FALSE,
                           Errorf(ErrBlock,
                                  StoreError(ErrStoreSet, outcome)))]
        ELSE [store |-> StoreBlock(st, blockedKey,
                                   BlockDuration(cfg, c.isToken)),
              call  |-> [c EXCEPT !.pc = "Reset"]]

AllowReset_escalated(st, cfg, c, outcome) ==
    LET key == Key(c.identifier, c.isToken)
    IN  IF outcome # "ok"
        THEN [store |-> st,
              call  |-> Return(c, FALSE,
                           Errorf("erro ao resetar contador",
                                  StoreError(ErrStoreDel, outcome)))]
        ELSE [store |-> StoreReset(st, key),
              call  |-> Return(c, FALSE, ErrNil)]

AllowReset(st, cfg, c, outcome) ==
    LET key == Key(c.identifier, c.isToken)
    IN  IF outcome # "ok"
        THEN [store |-> IF outcome = "late" THEN StoreReset(st, key) ELSE st,
              call  |-> Return(c, FALSE, ErrNil)]
        ELSE [store |-> StoreReset(st, key),
              call  |-> Return(c, FALSE, ErrNil)]

AllowStep(st, cfg, c, outcome) ==
    CASE c.pc = "IsBlocked" -> AllowIsBlocked(st, cfg, c, outcome)
      [] c.pc = "Increment" -> AllowIncrement(st, cfg, c, outcome)
      [] c.pc = "Block"     -> AllowBlock(st, cfg, c, outcome)
      [] c.pc = "Reset"     -> AllowReset(st, cfg, c, outcome)
      [] OTHER              -> [store |-> st, call |-> c]

----------------------------------------------------------------------------
(* Observers of a run.                                                     *)

IdentityOf(c) == <<c.isToken, c.identifier>>

\* the limit and the block duration configured for the class of x
ClassLimit(x) ==
    IF x[1] THEN limiterConfig.MaxRequestsPerToken
            ELSE limiterConfig.MaxRequestsPerIP

ClassDuration(x) ==
    IF x[1] THEN limiterConfig.BlockDurationTokenSeconds
            ELSE limiterConfig.BlockDurationIPSeconds

CounterKeyOf(x) == Key(x[2], x[1])
MarkerKeyOf(x) == BlockedKey(Key(x[2], x[1]))

\* x has neither a window counter nor a block marker in st
Fresh(st, x) ==
    /\ CounterKeyOf(x) \notin DOMAIN st
    /\ MarkerKeyOf(x) \notin DOMAIN st

InFlight(cs, x) ==
    \E p \in Procs : cs[p].pc # "idle" /\ IdentityOf(cs[p]) = x

NoRun == [valid |-> FALSE, seq |-> <<>>]
NewRun == [valid |-> TRUE, seq |-> <<>>]

Decision(c) == [allowed |-> c.allowed, err |-> c.err]

\* the step label of an error of Allow, "" for nil
ErrorStep(e) == IF e = ErrNil THEN "" ELSE Head(e)

\* the decisions of the calls that returned for x since x was fresh, in the
\* order of their return, as the tests collect them; a run ends when a
\* store operation fails
RunAfter(x, before, outcome, after) ==
    IF IdentityOf(after) # x \/ ~run[x].valid THEN run[x]
    ELSE IF outcome # "ok" THEN NoRun
    ELSE IF before.pc # "done" /\ after.pc = "done"
    THEN [run[x] EXCEPT !.seq = Append(@, Decision(after))]
    ELSE run[x]

\* seconds on the store's clock since the block marker of x was written
AgeAfter(x, before, after) ==
    IF /\ IdentityOf(before) = x
       /\ before.pc = "Block"
       /\ after.pc = "Reset"
    THEN 0
    ELSE blockAge[x]

AgeTick(x) ==
    IF blockAge[x] < 0 THEN blockAge[x]
    ELSE Min(blockAge[x] + 1, ClassDuration(x))

\* the store operation that failed during the call, if any
Observe(before, outcome, after) ==
    [after EXCEPT !.failed = IF outcome # "ok" THEN before.pc ELSE @,
                  !.reply  = IF outcome # "ok" THEN outcome ELSE @]

\* the counts Increment has returned for x during the life of its counter,
\* in the order of their return: count is the one returned in this step,
\* 0 if none, and after is the keyspace the step leaves
IssuedAfter(x, after, count) ==
    IF CounterKeyOf(x) \notin DOMAIN after THEN <<>>
    ELSE IF count > 0 THEN Append(issued[x], count)
    ELSE issued[x]

\* the count the step from before to after returned to a call for x
CountReturned(x, before, after) ==
    IF /\ IdentityOf(before) = x
       /\ before.pc \in {"Increment", "TxIncr", "TxPipeExpire"}
       /\ after.pc \in {"Block", "done"}
    THEN after.count ELSE 0

\* the reference run takes the same step unless the call is left out
Omitted(c) == omit.on /\ IdentityOf(c) = omit.id

----------------------------------------------------------------------------
(* Actions of the engine *)

\* a goroutine enters rl.Allow(ctx, identifier, isToken)
AllowCall(p, identifier, isToken) ==
    /\ calls[p].pc = "idle"
    /\ http[p].phase = "none"
    /\ ncalls < MaxCalls
    /\ calls' = [calls EXCEPT ![p] = NewCall(identifier, isToken)]
    /\ ncalls' = ncalls + 1
    /\ scalls' = IF omit.on /\ <<isToken, identifier>> # omit.id
                 THEN [scalls EXCEPT ![p] = NewCall(identifier, isToken)]
                 ELSE scalls
    /\ UNCHANGED <<store, limiterConfig, env, got, http, run, blockAge,
                   omit, sstore,
                   forwarded, issued, engines, probe>>

\* the store operation Allow is waiting for completes with the outcome
Perform(p, outcome) ==
    LET c == calls[p]
        r == AllowStep(store, limiterConfig, c, outcome)
        s == AllowStep(sstore, limiterConfig, scalls[p], outcome)
    IN  /\ store' = r.store
        /\ calls' = [calls EXCEPT ![p] = Observe(c, outcome, r.call)]
        /\ run' = [x \in Identities |-> RunAfter(x, c, outcome, r.call)]
        /\ blockAge' = [x \in Identities |-> AgeAfter(x, c, r.call)]
        /\ IF omit.on /\ ~Omitted(c)
           THEN /\ sstore' = s.store
                /\ scalls' = [scalls EXCEPT ![p] =
                                  Observe(scalls[p], outcome, s.call)]
           ELSE UNCHANGED <<sstore, scalls>>
        /\ issued' = [x \in Identities |->
                          IssuedAfter(x, r.store,
                                      CountReturned(x, c, r.call))]
        /\ UNCHANGED <<limiterConfig, env, ncalls, got, http, omit,
                       forwarded, engines, probe>>

IsBlocked(p, outcome) ==
    /\ calls[p].pc = "IsBlocked"
    /\ Perform(p, outcome)

Increment(p, outcome) ==
    /\ calls[p].pc = "Increment"
    /\ Perform(p, outcome)

Block(p, outcome) ==
    /\ calls[p].pc = "Block"
    /\ Perform(p, outcome)

Reset(p, outcome) ==
    /\ calls[p].pc = "Reset"
    /\ Perform(p, outcome)

\* the caller has taken the result of a direct Allow call
AllowReturn(p) ==
    /\ calls[p].pc = "done"
    /\ http[p].phase = "none"
    /\ calls' = [calls EXCEPT ![p] = IdleCall]
    /\ scalls' = [scalls EXCEPT ![p] = IdleCall]
    /\ blockAge' = [blockAge EXCEPT ![IdentityOf(calls[p])] =
                       IF @ >= ClassDuration(IdentityOf(calls[p]))
                       THEN 0 - 1 ELSE @]
    /\ UNCHANGED <<store, limiterConfig, env, ncalls, got, http, run,
                   omit, sstore,
                   forwarded, issued, engines, probe>>

\* one second passes on the store's clock (miniredis FastForward)
Elapse ==
    /\ \E k \in DOMAIN store : store[k].ttl > 0
    /\ store' = StoreTick(store)
    /\ sstore' = StoreTick(sstore)
    /\ run' = [x \in Identities |->
                  IF Fresh(store', x) /\ ~InFlight(calls, x)
                  THEN NewRun ELSE NoRun]
    /\ blockAge' = [x \in Identities |-> AgeTick(x)]
    /\ issued' = [x \in Identities |-> IssuedAfter(x, store', 0)]
    /\ UNCHANGED <<limiterConfig, env, calls, ncalls, got, http, omit,
                   scalls, forwarded, engines, probe>>

\* the clock of a test advances only between calls
Tick ==
    /\ \A p \in Procs : calls[p].pc = "idle"
    /\ Elapse

----------------------------------------------------------------------------
(* net.SplitHostPort on a string of characters (indices from 1) *)

\* position of the first ch in s at or after position from, 0 if none
IndexFrom(s, ch, from) ==
    LET hits == { i \in from..Len(s) : s[i] = ch }
    IN  IF hits = {} THEN 0 ELSE CHOOSE i \in hits : \A j \in hits : i <= j

LastIndex(s, ch) ==
    LET hits == { i \in 1..Len(s) : s[i] = ch }
    IN  IF hits = {} THEN 0 ELSE CHOOSE i \in hits : \A j \in hits : i >= j

SplitError == [ok |-> FALSE, host |-> <<>>, port |-> <<>>]

SplitHostPort(hostport) ==
    LET i   == LastIndex(hostport, ":")
        end == IndexFrom(hostport, "]", 1)
    IN  IF i = 0 THEN SplitError
        ELSE IF hostport[1] = "["
        THEN IF end = 0 \/ end + 1 # i THEN SplitError
             ELSE IF IndexFrom(hostport, "[", 2) # 0
                     \/ IndexFrom(hostport, "]", end + 1) # 0
                  THEN SplitError
                  ELSE [ok   |-> TRUE,
                        host |-> SubSeq(hostport, 2, end - 1),
                        port |-> SubSeq(hostport, i + 1, Len(hostport))]
        ELSE IF IndexFrom(SubSeq(hostport, 1, i - 1), ":", 1) # 0
                \/ IndexFrom(hostport, "[", 1) # 0
                \/ IndexFrom(hostport, "]", 1) # 0
             THEN SplitError
             ELSE [ok   |-> TRUE,
                   host |-> SubSeq(hostport, 1, i - 1),
                   port |-> SubSeq(hostport, i + 1, Len(hostport))]

----------------------------------------------------------------------------
(* The RateLimit middleware.  A request carries its headers (the empty     *)
(* string for a header that is absent) and the RemoteAddr of its           *)
(* connection.                                                             *)

ForwardedForHeader == <<"X", "-", "F", "o", "r", "w", "a", "r", "d", "e",
                        "d", "-", "F", "o", "r">>

HeaderNames == {ApiKeyHeader, <<"X">>, ForwardedForHeader}

NoRequest ==
    [header |-> [h \in HeaderNames |-> <<>>], remoteAddr |-> <<>>]

IdleHttp ==
    [phase |-> "none", req |-> NoRequest, status |-> 0, nextCalls |-> 0,
     allowCalls |-> 0, addrBlocked |-> FALSE]

\* whether the store holds the block marker of the address req comes from
\* (recorded with the request when it arrives, read by no handler)
AddrBlocked(st, req) ==
    LET split == SplitHostPort(req.remoteAddr)
    IN  /\ split.ok
        /\ StoreIsBlocked(st, BlockedKey(Key(split.host, FALSE)))

\* r.Header.Get(name)
HeaderGet(req, name) ==
    IF name \in DOMAIN req.header THEN req.header[name] ELSE <<>>

\* variant: a RemoteAddr that cannot be split is used whole
Identify_lenient(req, e) ==
    LET cfg   == GetConfig(e)
        token == HeaderGet(req, cfg.config.TokenHeaderName)
        split == SplitHostPort(req.remoteAddr)
    IN  IF cfg.status # "ok"
        THEN [result |-> "panic", identifier |-> <<>>, isToken |-> FALSE]
        ELSE IF token # <<>>
        THEN [result |-> "allow", identifier |-> token, isToken |-> TRUE]
        ELSE IF ~split.ok
        THEN [result |-> "allow", identifier |-> req.remoteAddr,
              isToken |-> FALSE]
        ELSE [result |-> "allow", identifier |-> split.host,
              isToken |-> FALSE]

\* variant: a request is judged by its address whenever that can be read
Identify_addressfirst(req, e) ==
    LET cfg   == GetConfig(e)
        token == HeaderGet(req, cfg.config.TokenHeaderName)
        split == SplitHostPort(req.remoteAddr)
    IN  IF cfg.status # "ok"
        THEN [result |-> "panic", identifier |-> <<>>, isToken |-> FALSE]
        ELSE IF split.ok
        THEN [result |-> "allow", identifier |-> split.host,
              isToken |-> FALSE]
        ELSE IF token # <<>>
        THEN [result |-> "allow", identifier |-> token, isToken |-> TRUE]
        ELSE [result |-> "error", identifier |-> <<>>, isToken |-> FALSE]

Identify_addressonly(req, e) ==
    LET cfg   == GetConfig(e)
        split == SplitHostPort(req.remoteAddr)
    IN  IF cfg.status # "ok"
        THEN [result |-> "panic", identifier |-> <<>>, isToken |-> FALSE]
        ELSE IF ~split.ok
        THEN [result |-> "error", identifier |-> <<>>, isToken |-> FALSE]
        ELSE [result |-> "allow", identifier |-> split.host,
              isToken |-> FALSE]

\* the part of the handler before rl.Allow: which identity the request is
\* judged under, or the response when there is none
Identify(req, e) ==
    LET cfg   == GetConfig(e)
        token == HeaderGet(req, cfg.config.TokenHeaderName)
        split == SplitHostPort(req.remoteAddr)
    IN  IF cfg.status # "ok"
        THEN [result |-> "panic", identifier |-> <<>>, isToken |-> FALSE]
        ELSE IF token # <<>>
        THEN [result |-> "allow", identifier |-> token, isToken |-> TRUE]
        ELSE IF ~split.ok
        THEN [result |-> "error", identifier |-> <<>>, isToken |-> FALSE]
        ELSE [result |-> "allow", identifier |-> split.host,
              isToken |-> FALSE]

\* variant: a denied request is left without a response
Answer_hanging(h, c) ==
    IF c.err # ErrNil
    THEN [h EXCEPT !.phase = "responded",
                   !.status = StatusInternalServerError]
    ELSE IF ~c.allowed
    THEN h
    ELSE [h EXCEPT !.phase = "responded", !.status = StatusOK,
                   !.nextCalls = @ + 1]

Answer_fallthrough(h, c) ==
    IF c.err # ErrNil
    THEN [h EXCEPT !.phase = "responded",
                   !.status = StatusInternalServerError]
    ELSE IF ~c.allowed
    THEN [h EXCEPT !.phase = "responded", !.status = StatusTooManyRequests,
                   !.nextCalls = @ + 1]
    ELSE [h EXCEPT !.phase = "responded", !.status = StatusOK,
                   !.nextCalls = @ + 1]

\* the part of the handler after rl.Allow has returned
Answer(h, c) ==
    IF c.err # ErrNil
    THEN [h EXCEPT !.phase = "responded",
                   !.status = StatusInternalServerError]
    ELSE IF ~c.allowed
    THEN [h EXCEPT !.phase = "responded", !.status = StatusTooManyRequests]
    ELSE [h EXCEPT !.phase = "responded", !.status = StatusOK,
                   !.nextCalls = @ + 1]

\* the addresses a client may name in X-Forwarded-For
ForwardedAddrs == { <<"a">>, <<"b">> }

\* the request counts as one more token-less request carrying its
\* X-Forwarded-For address
ForwardedAfter(req) ==
    LET f == HeaderGet(req, ForwardedForHeader)
    IN  IF /\ HeaderGet(req, limiterConfig.TokenHeaderName) = <<>>
           /\ f \in ForwardedAddrs
        THEN [forwarded EXCEPT ![f] = @ + 1]
        ELSE forwarded

\* a goroutine of the server starts to handle the request
Serve(p, req) ==
    LET id == Identify(req, env)
    IN  /\ http[p].phase = "none"
        /\ calls[p].pc = "idle"
        /\ ncalls < MaxCalls
        /\ id.result = "allow" => id.identifier \in Identifiers
        /\ http' = [http EXCEPT ![p] =
               CASE id.result = "allow" ->
                        [IdleHttp EXCEPT !.phase = "allow", !.req = req,
                             !.allowCalls = 1,
                             !.addrBlocked = AddrBlocked(store, req)]
                 [] id.result = "error" ->
                        [IdleHttp EXCEPT !.phase = "responded", !.req = req,
                             !.status = StatusInternalServerError]
                 [] OTHER ->
                        [IdleHttp EXCEPT !.phase = "panicked", !.req = req]]
        /\ calls' = IF id.result = "allow"
                    THEN [calls EXCEPT ![p] =
                              NewCall(id.identifier, id.isToken)]
                    ELSE calls
        /\ scalls' = IF /\ id.result = "allow"
                        /\ omit.on
                        /\ <<id.isToken, id.identifier>> # omit.id
                     THEN [scalls EXCEPT ![p] =
                               NewCall(id.identifier, id.isToken)]
                     ELSE scalls
        /\ ncalls' = ncalls + 1
        /\ forwarded' = ForwardedAfter(req)
        /\ UNCHANGED <<store, limiterConfig, env, got, run, blockAge, omit,
                       sstore, issued, engines, probe>>

\* rl.Allow has returned to the handler, which answers the request
Respond(p) ==
    /\ http[p].phase = "allow"
    /\ calls[p].pc = "done"
    /\ http' = [http EXCEPT ![p] = Answer(@, calls[p])]
    /\ UNCHANGED <<store, limiterConfig, env, calls, ncalls, got, run,
                   blockAge, omit, sstore, scalls,
                   forwarded, issued, engines, probe>>

\* the response has been sent and the goroutine ends
Finish(p) ==
    /\ http[p].phase \in {"responded", "panicked"}
    /\ http' = [http EXCEPT ![p] = IdleHttp]
    /\ calls' = [calls EXCEPT ![p] = IdleCall]
    /\ scalls' = [scalls EXCEPT ![p] = IdleCall]
    /\ blockAge' = [x \in Identities |->
                       IF /\ calls[p].pc = "done"
                          /\ x = IdentityOf(calls[p])
                          /\ blockAge[x] >= ClassDuration(x)
                       THEN 0 - 1 ELSE blockAge[x]]
    /\ UNCHANGED <<store, limiterConfig, env, ncalls, got, run, omit,
                   sstore, forwarded, issued, engines, probe>>

----------------------------------------------------------------------------
(* Initial states *)

NoOmit == [on |-> FALSE, id |-> <<FALSE, <<>>>>]

\* no variable set: every value is the default of the loader
InitEnv == [file |-> TRUE, vars |-> [n \in EnvNames |-> <<>>]]

\* no keys are being compared
NoProbe == [built |-> FALSE, a |-> <<>>, b |-> <<>>, ka |-> <<>>,
            kb |-> <<>>]

InitCommon ==
    /\ store = EmptyStore
    /\ limiterConfig = DefaultConfig
    /\ engines = [p \in Procs |-> DefaultConfig]
    /\ env = InitEnv
    /\ calls = [p \in Procs |-> IdleCall]
    /\ ncalls = 0
    /\ got = [p \in Procs |-> NoConfig]
    /\ http = [p \in Procs |-> IdleHttp]
    /\ run = [x \in Identities |-> NewRun]
    /\ blockAge = [x \in Identities |-> 0 - 1]
    /\ sstore = EmptyStore
    /\ scalls = [p \in Procs |-> IdleCall]
    /\ forwarded = [f \in ForwardedAddrs |-> 0]
    /\ issued = [x \in Identities |-> <<>>]
    /\ probe = NoProbe

Init ==
    /\ InitCommon
    /\ omit = NoOmit

\* one caller, a reliable store, time passing between calls
Next ==
    \/ \E id \in Identifiers, t \in BOOLEAN : AllowCall(1, id, t)
    \/ IsBlocked(1, "ok")
    \/ Increment(1, "ok")
    \/ Block(1, "ok")
    \/ Reset(1, "ok")
    \/ AllowReturn(1)
    \/ Tick

Spec == Init /\ [][Next]_vars

\* concurrent callers, a reliable store, time passing at any moment
NextConc ==
    \/ \E p \in Procs, id \in Identifiers, t \in BOOLEAN : AllowCall(p, id, t)
    \/ \E p \in Procs : IsBlocked(p, "ok")
    \/ \E p \in Procs : Increment(p, "ok")
    \/ \E p \in Procs : Block(p, "ok")
    \/ \E p \in Procs : Reset(p, "ok")
    \/ \E p \in Procs : AllowReturn(p)
    \/ Elapse

SpecConc == Init /\ [][NextConc]_vars

Outcomes == {"ok", "err"}

\* concurrent callers and a store whose operations may fail
NextFail ==
    \/ \E p \in Procs, id \in Identifiers, t \in BOOLEAN : AllowCall(p, id, t)
    \/ \E p \in Procs, o \in Outcomes : IsBlocked(p, o)
    \/ \E p \in Procs, o \in Outcomes : Increment(p, o)
    \/ \E p \in Procs, o \in Outcomes : Block(p, o)
    \/ \E p \in Procs, o \in Outcomes : Reset(p, o)
    \/ \E p \in Procs : AllowReturn(p)
    \/ Elapse

SpecFail == Init /\ [][NextFail]_vars

\* the same for the calls of one client, as an IP and as a token
NextFailOne ==
    \/ \E p \in Procs, t \in BOOLEAN : AllowCall(p, <<"a">>, t)
    \/ \E p \in Procs, o \in Outcomes : IsBlocked(p, o)
    \/ \E p \in Procs, o \in Outcomes : Increment(p, o)
    \/ \E p \in Procs, o \in Outcomes : Block(p, o)
    \/ \E p \in Procs, o \in Outcomes : Reset(p, o)
    \/ \E p \in Procs : AllowReturn(p)
    \/ Elapse

SpecFailOne == Init /\ [][NextFailOne]_vars

----------------------------------------------------------------------------
(* RedisStore.Increment called on the store directly, with a window of the *)
(* caller's choice, next to the calls of the engine.                       *)

\* store.Increment(ctx, key of x, window seconds)
IncrementCall(x, window) ==
    /\ ncalls < MaxCalls
    /\ store' = StoreIncrement(store, CounterKeyOf(x), window).store
    /\ ncalls' = ncalls + 1
    /\ run' = [run EXCEPT ![x] = NoRun]
    /\ issued' = [issued EXCEPT ![x] =
                      IssuedAfter(x, store',
                          StoreIncrement(store, CounterKeyOf(x),
                                         window).count)]
    /\ UNCHANGED <<limiterConfig, env, calls, got, http, blockAge, omit,
                   sstore, scalls, forwarded, engines, probe>>

NextStore ==
    \/ \E t \in BOOLEAN : AllowCall(1, <<"a">>, t)
    \/ IsBlocked(1, "ok")
    \/ Increment(1, "ok")
    \/ Block(1, "ok")
    \/ Reset(1, "ok")
    \/ AllowReturn(1)
    \/ \E t \in BOOLEAN, w \in 1..MaxWindow : IncrementCall(<<t, <<"a">>>>, w)
    \/ Elapse

SpecStore == Init /\ [][NextStore]_vars

----------------------------------------------------------------------------
(* The RedisStore of the earlier revision, whose Increment is              *)
(* incrementWithTx: EXISTS, then a pipeline of INCR and EXPIRE for a key   *)
(* that did not exist, or a plain INCR for one that did.  Each command is  *)
(* one step of the server.                                                 *)

\* INCR key
TxIncr(st, key) ==
    LET cur == IF key \in DOMAIN st THEN st[key].num ELSE 0
        ttl == IF key \in DOMAIN st THEN st[key].ttl ELSE NoExpiry
    IN  Put(st, key, IntEntry(cur + 1, ttl))

\* EXPIRE key window
TxExpire(st, key, window) ==
    IF key \notin DOMAIN st THEN st
    ELSE IF window > 0 THEN Put(st, key, [st[key] EXCEPT !.ttl = window])
    ELSE Del(st, key)

\* Allow once Increment has returned count
AllowCount(cfg, c, count) ==
    IF OverLimit(count, MaxRequests(cfg, c.isToken))
    THEN [c EXCEPT !.pc = "Block", !.count = count]
    ELSE Return([c EXCEPT !.count = count], TRUE, ErrNil)

\* the command of incrementWithTx at c.pc
IncrementWithTx(st, cfg, c) ==
    LET key == Key(c.identifier, c.isToken)
    IN  CASE c.pc = "Increment" ->
                 [store |-> st,
                  call  |-> [c EXCEPT !.pc = IF key \in DOMAIN st
                                             THEN "TxIncr"
                                             ELSE "TxPipeIncr"]]
          [] c.pc = "TxPipeIncr" ->
                 [store |-> TxIncr(st, key),
                  call  |-> [c EXCEPT !.pc = "TxPipeExpire",
                                      !.count = TxIncr(st, key)[key].num]]
          [] c.pc = "TxPipeExpire" ->
                 [store |-> TxExpire(st, key, WindowSeconds),
                  call  |-> AllowCount(cfg, c, c.count)]
          [] c.pc = "TxIncr" ->
                 [store |-> TxIncr(st, key),
                  call  |-> AllowCount(cfg, c, TxIncr(st, key)[key].num)]
          [] OTHER -> [store |-> st, call |-> c]

\* the command incrementWithTx is waiting for completes
PerformTx(p) ==
    LET c == calls[p]
        r == IncrementWithTx(store, limiterConfig, c)
    IN  /\ store' = r.store
        /\ calls' = [calls EXCEPT ![p] = r.call]
        /\ run' = [x \in Identities |-> RunAfter(x, c, "ok", r.call)]
        /\ issued' = [x \in Identities |->
                          IssuedAfter(x, r.store,
                                      CountReturned(x, c, r.call))]
        /\ UNCHANGED <<limiterConfig, env, ncalls, got, http, blockAge,
                       omit, sstore, scalls, forwarded, engines, probe>>

TxExists(p) ==
    /\ calls[p].pc = "Increment"
    /\ PerformTx(p)

TxPipelineIncr(p) ==
    /\ calls[p].pc = "TxPipeIncr"
    /\ PerformTx(p)

TxPipelineExpire(p) ==
    /\ calls[p].pc = "TxPipeExpire"
    /\ PerformTx(p)

TxPlainIncr(p) ==
    /\ calls[p].pc = "TxIncr"
    /\ PerformTx(p)

\* concurrent calls of one client on the engine with that store
NextTx ==
    \/ \E p \in Procs, t \in BOOLEAN : AllowCall(p, <<"a">>, t)
    \/ \E p \in Procs : IsBlocked(p, "ok")
    \/ \E p \in Procs : TxExists(p)
    \/ \E p \in Procs : TxPipelineIncr(p)
    \/ \E p \in Procs : TxPipelineExpire(p)
    \/ \E p \in Procs : TxPlainIncr(p)
    \/ \E p \in Procs : Block(p, "ok")
    \/ \E p \in Procs : Reset(p, "ok")
    \/ \E p \in Procs : AllowReturn(p)
    \/ Elapse

SpecTx == Init /\ [][NextTx]_vars

----------------------------------------------------------------------------
\* how a store operation ends when the caller's context may be cancelled
CancelOutcomes == {"ok", "err", "late"}

\* calls of one client whose context may be cancelled during any store
\* operation
NextCancel ==
    \/ \E p \in Procs, t \in BOOLEAN : AllowCall(p, <<"a">>, t)
    \/ \E p \in Procs, o \in CancelOutcomes : IsBlocked(p, o)
    \/ \E p \in Procs, o \in CancelOutcomes : Increment(p, o)
    \/ \E p \in Procs, o \in CancelOutcomes : Block(p, o)
    \/ \E p \in Procs, o \in CancelOutcomes : Reset(p, o)
    \/ \E p \in Procs : AllowReturn(p)
    \/ Elapse

SpecCancel == Init /\ [][NextCancel]_vars

\* the same run next to the reference run in which one identity makes no
\* call; the identifiers being interchangeable, that identity is "a" of
\* either class
InitIso ==
    /\ InitCommon
    /\ omit \in { [on |-> TRUE, id |-> <<t, <<"a">>>>] : t \in BOOLEAN }

SpecIso == InitIso /\ [][NextConc]_vars

----------------------------------------------------------------------------
(* The engine next to its environment: main loads the configuration from   *)
(* the environment and constructs the engine with it; the environment may  *)
(* change afterwards.                                                      *)

EnvValues ==
    [ MAX_REQUESTS_PER_IP          |-> {<<>>, <<"1">>, <<"0">>, <<"x">>},
      MAX_REQUESTS_PER_TOKEN       |-> {<<"1">>},
      BLOCK_DURATION_IP_SECONDS    |-> {<<"1">>, <<"-", "1">>},
      BLOCK_DURATION_TOKEN_SECONDS |-> {<<"2">>},
      TOKEN_HEADER_NAME            |-> {<<>>, <<"X">>} ]

Environments ==
    { e \in [file : BOOLEAN,
              vars : [EnvNames -> UNION {EnvValues[n] : n \in EnvNames}]] :
          \A n \in EnvNames : e.vars[n] \in EnvValues[n] }

\* os.Setenv
SetEnv(name, value) ==
    /\ env.vars[name] # value
    /\ env' = [env EXCEPT !.vars[name] = value]
    /\ UNCHANGED <<store, limiterConfig, calls, ncalls, got, http, run,
                   blockAge, omit, sstore, scalls,
                   forwarded, issued, engines, probe>>

\* the .env file disappears from, or appears in, the working directory
SetEnvFile(present) ==
    /\ env.file # present
    /\ env' = [env EXCEPT !.file = present]
    /\ UNCHANGED <<store, limiterConfig, calls, ncalls, got, http, run,
                   blockAge, omit, sstore, scalls,
                   forwarded, issued, engines, probe>>

\* a goroutine calls rl.GetConfig(): the loader starts with godotenv.Load
GetConfigCall(p) ==
    /\ got[p].at = 0
    /\ got' = [got EXCEPT ![p] = LoadStart(env)]
    /\ got'[p] # got[p]
    /\ UNCHANGED <<store, limiterConfig, env, calls, ncalls, http, run,
                   blockAge, omit, sstore, scalls,
                   forwarded, issued, engines, probe>>

\* the loader of the call reads its next variable from the environment
\* as it is now; after the last one GetConfig returns
GetConfigRead(p) ==
    /\ got[p].at > 0
    /\ got' = [got EXCEPT ![p] = Panics(LoadRead(@, env))]
    /\ UNCHANGED <<store, limiterConfig, env, calls, ncalls, http, run,
                   blockAge, omit, sstore, scalls,
                   forwarded, issued, engines, probe>>

\* main: LoadConfigRateLimiter succeeded and NewRateLimiter keeps its result
InitConfig ==
    /\ env \in Environments
    /\ LoadConfigRateLimiter(env).status = "ok"
    /\ limiterConfig = LoadConfigRateLimiter(env).config
    /\ engines = [p \in Procs |-> LoadConfigRateLimiter(env).config]
    /\ store = EmptyStore
    /\ calls = [p \in Procs |-> IdleCall]
    /\ ncalls = 0
    /\ got = [p \in Procs |-> NoConfig]
    /\ http = [p \in Procs |-> IdleHttp]
    /\ run = [x \in Identities |-> NewRun]
    /\ blockAge = [x \in Identities |-> 0 - 1]
    /\ omit = NoOmit
    /\ sstore = EmptyStore
    /\ scalls = [p \in Procs |-> IdleCall]
    /\ forwarded = [f \in ForwardedAddrs |-> 0]
    /\ issued = [x \in Identities |-> <<>>]
    /\ probe = NoProbe

NextConfig ==
    \/ \E n \in EnvNames : \E v \in EnvValues[n] : SetEnv(n, v)
    \/ \E b \in BOOLEAN : SetEnvFile(b)
    \/ GetConfigCall(1)
    \/ GetConfigRead(1)
    \/ AllowCall(1, <<"a">>, FALSE)
    \/ IsBlocked(1, "ok")
    \/ Increment(1, "ok")
    \/ Block(1, "ok")
    \/ Reset(1, "ok")
    \/ AllowReturn(1)

SpecConfig == InitConfig /\ [][NextConfig]_vars

Requests ==
    { [header |-> [h \in HeaderNames |->
                       IF h = ApiKeyHeader THEN token ELSE <<>>],
       remoteAddr |-> addr] :
          token \in {<<>>, <<"a">>},
          addr \in {<<"a", ":", "8">>, <<"a">>} }

\* the server: concurrent requests through the middleware within one
\* second, a store whose operations may fail
NextHttp ==
    \/ \E p \in Procs, req \in Requests : Serve(p, req)
    \/ \E p \in Procs, o \in Outcomes : IsBlocked(p, o)
    \/ \E p \in Procs, o \in Outcomes : Increment(p, o)
    \/ \E p \in Procs, o \in Outcomes : Block(p, o)
    \/ \E p \in Procs, o \in Outcomes : Reset(p, o)
    \/ \E p \in Procs : Respond(p)
    \/ \E p \in Procs : Finish(p)

SpecHttp == Init /\ [][NextHttp]_vars

\* a limiter constructed with the larger limit for tokens, as the
\* middleware's integration test constructs it
TokenFavouredConfig ==
    LimiterConfig(CfgMaxRequestsPerToken, CfgMaxRequestsPerIP,
                  CfgBlockDurationIPSeconds, CfgBlockDurationTokenSeconds,
                  ApiKeyHeader)

InitTokenFavoured ==
    /\ store = EmptyStore
    /\ limiterConfig = TokenFavouredConfig
    /\ engines = [p \in Procs |-> TokenFavouredConfig]
    /\ env = InitEnv
    /\ calls = [p \in Procs |-> IdleCall]
    /\ ncalls = 0
    /\ got = [p \in Procs |-> NoConfig]
    /\ http = [p \in Procs |-> IdleHttp]
    /\ run = [x \in Identities |-> NewRun]
    /\ blockAge = [x \in Identities |-> 0 - 1]
    /\ omit = NoOmit
    /\ sstore = EmptyStore
    /\ scalls = [p \in Procs |-> IdleCall]
    /\ forwarded = [f \in ForwardedAddrs |-> 0]
    /\ issued = [x \in Identities |-> <<>>]
    /\ probe = NoProbe

SpecHttpToken == InitTokenFavoured /\ [][NextHttp]_vars

\* requests without token that name an address in X-Forwarded-For
ForwardedRequests ==
    { [header |-> [h \in HeaderNames |->
                       IF h = ForwardedForHeader THEN f ELSE <<>>],
       remoteAddr |-> addr] :
          f \in ForwardedAddrs,
          addr \in {<<"a", ":", "8">>, <<"b", ":", "8">>} }

\* the server handling such requests one after the other within one
\* second, with a reliable store
NextForwarded ==
    \/ \E req \in ForwardedRequests : Serve(1, req)
    \/ IsBlocked(1, "ok")
    \/ Increment(1, "ok")
    \/ Block(1, "ok")
    \/ Reset(1, "ok")
    \/ Respond(1)
    \/ Finish(1)

SpecForwarded == Init /\ [][NextForwarded]_vars

----------------------------------------------------------------------------
(* Properties of sequential calls against a reliable store (Spec) *)

Allowed == [allowed |-> TRUE, err |-> ErrNil]
Denied == [allowed |-> FALSE, err |-> ErrNil]

DoneCalls == { p \in Procs : calls[p].pc = "done" }

\* C1: starting from an identity without counter and marker, of the calls
\* made within one window the first N return (true, nil) and call N+1
\* returns (false, nil), N being the limit of the class.
C1_FirstNAllowedThenDenied ==
    \A x \in Identities :
        run[x].valid =>
            \A j \in 1..Len(run[x].seq) :
                /\ j <= ClassLimit(x)
                      => run[x].seq[j] = Allowed
                /\ j = ClassLimit(x) + 1
                      => run[x].seq[j] = Denied

C1_Witness ==
    \E x \in Identities :
        /\ run[x].valid
        /\ ClassLimit(x) >= 1
        /\ Len(run[x].seq) = ClassLimit(x) + 1

\* the name of the block marker as the tests read it from the store
MarkerName(x) ==
    IF x[1]
    THEN <<"b", "l", "o", "c", "k", "e", "d", "_",
           "t", "o", "k", "e", "n", "_">> \o x[2]
    ELSE <<"b", "l", "o", "c", "k", "e", "d", "_", "i", "p", "_">> \o x[2]

DeniedOverLimit(c) ==
    /\ c.pc = "done"
    /\ Decision(c) = Denied
    /\ c.count > ClassLimit(IdentityOf(c))

\* C3: right after Allow returns (false, nil) because the count exceeded
\* the limit, the store holds "blocked" under blocked_ip_<id> or
\* blocked_token_<id> with 0 < TTL <= the block duration of the class.
C3_MarkerSetWithDuration ==
    \A p \in Procs :
        DeniedOverLimit(calls[p]) =>
            LET name == MarkerName(IdentityOf(calls[p]))
            IN  /\ name \in DOMAIN store
                /\ store[name].kind = "str"
                /\ store[name].str = "blocked"
                /\ store[name].ttl > 0
                /\ store[name].ttl <= ClassDuration(IdentityOf(calls[p]))

C3_Witness == \E p \in Procs : DeniedOverLimit(calls[p])

\* C4: while less than the block duration has passed since the marker was
\* written every call is denied; the first call after the duration has
\* passed returns (true, nil) and leaves the window counter at exactly 1.
C4_ReadmittedAfterBlock ==
    \A p \in DoneCalls :
        LET x == IdentityOf(calls[p])
            d == ClassDuration(x)
        IN  /\ (blockAge[x] >= 0 /\ blockAge[x] < d)
                  => Decision(calls[p]) = Denied
            /\ blockAge[x] >= d
                  => /\ Decision(calls[p]) = Allowed
                     /\ CounterKeyOf(x) \in DOMAIN store
                     /\ store[CounterKeyOf(x)].num = 1

C4_Witness ==
    \E p \in DoneCalls :
        /\ blockAge[IdentityOf(calls[p])] >=
               ClassDuration(IdentityOf(calls[p]))
        /\ Decision(calls[p]) = Allowed

\* C5: an Allow call whose IsBlocked finds the marker returns (false, nil)
\* at once: nothing in the store changes (no Increment, Block or Reset),
\* the marker keeps its TTL and the window counter stays absent.
C5_BlockedCallTouchesNothing ==
    [][ \A p \in Procs :
          ( /\ calls[p].pc = "IsBlocked"
            /\ StoreIsBlocked(store, MarkerKeyOf(IdentityOf(calls[p])))
            /\ calls'[p] # calls[p] )
          => /\ calls'[p].pc = "done"
             /\ Decision(calls'[p]) = Denied
             /\ store' = store
             /\ CounterKeyOf(IdentityOf(calls[p])) \notin DOMAIN store' ]_vars

C5_Witness ==
    \E p \in DoneCalls :
        /\ Decision(calls[p]) = Denied
        /\ calls[p].count = 0
        /\ StoreIsBlocked(store, MarkerKeyOf(IdentityOf(calls[p])))

----------------------------------------------------------------------------
(* Properties of concurrent calls against a reliable store (SpecConc) *)

AllowedIn(seq) == { j \in 1..Len(seq) : seq[j] = Allowed }
DeniedIn(seq) == { j \in 1..Len(seq) : seq[j] = Denied }

\* C2: of K > N calls for one identity made concurrently within one window,
\* whatever the interleaving of their store operations, at most N return
\* allowed = true and at least K - N return allowed = false.
C2_AtMostNAllowed ==
    \A x \in Identities :
        (run[x].valid /\ Len(run[x].seq) > ClassLimit(x)) =>
            /\ Cardinality(AllowedIn(run[x].seq)) <= ClassLimit(x)
            /\ Cardinality(DeniedIn(run[x].seq)) >=
                   Len(run[x].seq) - ClassLimit(x)

----------------------------------------------------------------------------
(* Independence of identities (SpecIso): every run is compared with the    *)
(* run in which the calls of the identity omit.id are removed.             *)

View(st, y) ==
    [k \in {CounterKeyOf(y), MarkerKeyOf(y)} \cap DOMAIN st |-> st[k]]

\* the calls of y and the keys of y are as in the reference run
SameAsReference(y) ==
    /\ \A p \in Procs :
           (calls[p].pc # "idle" /\ IdentityOf(calls[p]) = y)
               => scalls[p] = calls[p]
    /\ View(store, y) = View(sstore, y)

\* C6: for distinct identifiers X and Y of one class, the decisions for Y
\* and the counter and marker of Y are what they are in the run without
\* the calls of X.
C6_SameClassIndependent ==
    omit.on =>
        \A y \in Identities :
            (y[1] = omit.id[1] /\ y[2] # omit.id[2]) => SameAsReference(y)

C6_Witness ==
    /\ omit.on
    /\ StoreIsBlocked(store, MarkerKeyOf(omit.id))
    /\ \E p \in DoneCalls :
           /\ calls[p].isToken = omit.id[1]
           /\ calls[p].identifier # omit.id[2]
           /\ Decision(calls[p]) = Allowed

\* C7: for one raw string s, the decisions for s in one class and the
\* counter and marker of that class are what they are in the run without
\* the calls for s in the other class.
C7_CrossClassIndependent ==
    omit.on =>
        \A y \in Identities :
            (y[1] # omit.id[1] /\ y[2] = omit.id[2]) => SameAsReference(y)

C7_Witness ==
    /\ omit.on
    /\ StoreIsBlocked(store, MarkerKeyOf(omit.id))
    /\ \E p \in DoneCalls :
           /\ calls[p].isToken # omit.id[1]
           /\ calls[p].identifier = omit.id[2]
           /\ Decision(calls[p]) = Allowed

----------------------------------------------------------------------------
(* Store failures (SpecFail) *)

\* C8: when IsBlocked, Increment or Block fails, Allow returns at once with
\* an error and allowed = false; it never returns allowed = true after an
\* operation it invoked has failed, and it always ends in a return.
C8_FailureYieldsError ==
    \A p \in Procs :
        /\ calls[p].pc \in {"idle", "IsBlocked", "Increment", "Block",
                            "Reset", "done"}
        /\ calls[p].failed \in {"IsBlocked", "Increment", "Block"}
              => /\ calls[p].pc = "done"
                 /\ calls[p].err # ErrNil
                 /\ calls[p].allowed = FALSE
        /\ calls[p].failed # "none"
              => /\ calls[p].pc = "done"
                 /\ calls[p].allowed = FALSE

C8_Witness ==
    /\ \E p \in DoneCalls : calls[p].failed = "Increment"
    /\ \E p \in DoneCalls : calls[p].failed = "IsBlocked"

----------------------------------------------------------------------------
(* Configuration (SpecConfig) *)

\* C9: whenever GetConfig is called it returns the five values the engine
\* was constructed with, whatever has happened to the environment since,
\* and the configuration of the engine never changes.
C9_GetConfigReturnsConstruction ==
    \A p \in Procs :
        got[p].status # "none" =>
            /\ got[p].status = "ok"
            /\ got[p].config = limiterConfig

----------------------------------------------------------------------------
(* The middleware (SpecHttp) *)

Responded == { p \in Procs : http[p].phase = "responded"
                              /\ calls[p].pc = "done" }

\* C10: when Allow returned (true, nil) the next handler is invoked exactly
\* once; when it returned (false, nil) the status is 429 and the next
\* handler is not invoked; when it returned an error the status is a 5xx
\* other than 429 and the next handler is not invoked.
C10_ResponseFollowsDecision ==
    \A p \in Responded :
        /\ Decision(calls[p]) = Allowed => http[p].nextCalls = 1
        /\ Decision(calls[p]) = Denied
              => /\ http[p].status = 429
                 /\ http[p].nextCalls = 0
        /\ calls[p].err # ErrNil
              => /\ http[p].status >= 500
                 /\ http[p].status <= 599
                 /\ http[p].status # 429
                 /\ http[p].nextCalls = 0

C10_Witness ==
    /\ \E p \in Responded : Decision(calls[p]) = Denied
    /\ \E p \in Responded : calls[p].err # ErrNil

\* the identity the request in service is to be judged under: the value of
\* the configured token header, else the host of the connection's address
HeaderToken(p) == http[p].req.header[limiterConfig.TokenHeaderName]

HostOf(p) == SplitHostPort(http[p].req.remoteAddr)

JudgedAs(p, identifier, isToken) ==
    /\ http[p].allowCalls = 1
    /\ calls[p].pc # "idle"
    /\ calls[p].identifier = identifier
    /\ calls[p].isToken = isToken

NotJudged(p) ==
    /\ http[p].allowCalls = 0
    /\ calls[p].pc = "idle"

InService == { p \in Procs : http[p].phase # "none" }

\* C11 as stated: for every request the middleware calls Allow exactly
\* once, with (token, true) when the configured header is non-empty and
\* otherwise with (host of RemoteAddr, false).
C11_AllowOncePerRequest ==
    \A p \in InService :
        IF HeaderToken(p) # <<>>
        THEN JudgedAs(p, HeaderToken(p), TRUE)
        ELSE JudgedAs(p, HostOf(p).host, FALSE)

\* C11 amended: Allow is called exactly once with (token, true) when the
\* configured header is non-empty, and exactly once with (host, false) when
\* it is empty and RemoteAddr splits into host and port; when the header is
\* empty and RemoteAddr does not split, Allow is not called and the request
\* is answered 500.
C11_AllowOnceWhenIdentified ==
    \A p \in InService :
        IF HeaderToken(p) # <<>>
        THEN JudgedAs(p, HeaderToken(p), TRUE)
        ELSE IF HostOf(p).ok
        THEN JudgedAs(p, HostOf(p).host, FALSE)
        ELSE /\ NotJudged(p)
             /\ http[p].phase = "responded"
             /\ http[p].status = 500
             /\ http[p].nextCalls = 0

C11_Witness ==
    /\ \E p \in InService :
           /\ HeaderToken(p) # <<>>
           /\ JudgedAs(p, HeaderToken(p), TRUE)
    /\ \E p \in InService :
           /\ HeaderToken(p) = <<>>
           /\ ~HostOf(p).ok
           /\ NotJudged(p)

\* C12: token-less requests are rate-limited by their X-Forwarded-For
\* address: a request carrying an address whose requests have not exceeded
\* the IP limit is answered 200, whatever the requests carrying other
\* addresses on the same connection have been answered.
C12_ForwardedForIndependent ==
    \A p \in Procs :
        LET f == HeaderGet(http[p].req, ForwardedForHeader)
        IN  ( /\ http[p].phase = "responded"
              /\ HeaderToken(p) = <<>>
              /\ f \in ForwardedAddrs
              /\ forwarded[f] <= limiterConfig.MaxRequestsPerIP )
            => http[p].status = 200

----------------------------------------------------------------------------
(* Validation of the configuration (SpecConfig) *)

\* C13: a configuration with a request limit or a block duration that is
\* not positive is rejected when it is loaded or when the engine is
\* constructed: Allow is never evaluated with a limit <= 0 or a block
\* duration <= 0.
C13_AllowOnlyWithPositiveConfig ==
    \A p \in Procs :
        calls[p].pc # "idle" =>
            /\ ClassLimit(IdentityOf(calls[p])) > 0
            /\ ClassDuration(IdentityOf(calls[p])) > 0

\* C14: a failure to load the configuration (no .env file, a value that is
\* not an integer) is returned as an error and is never a panic: loading
\* in the current environment does not panic, and no GetConfig call made
\* while the engine serves requests has panicked.
C14_LoadingNeverPanics ==
    /\ LoadConfigRateLimiter(env).status # "panic"
    /\ \A p \in Procs : got[p].status # "panic"

----------------------------------------------------------------------------
(* The keys of an identity as an inspection of the store shows them        *)
(* (SpecConc)                                                              *)

BlockedPrefix == <<"b", "l", "o", "c", "k", "e", "d", "_">>

\* the name of the window counter as the tests read it from the store
CounterName(x) ==
    IF x[1] THEN <<"t", "o", "k", "e", "n", "_">> \o x[2]
            ELSE <<"i", "p", "_">> \o x[2]

\* the names the design document gives to the same keys
DocCounterName(x) ==
    IF x[1]
    THEN <<"c", "r", "e", "d", "e", "n", "t", "i", "a", "l", "_">> \o x[2]
    ELSE <<"a", "d", "d", "r", "e", "s", "s", "_">> \o x[2]

DocMarkerName(x) == BlockedPrefix \o DocCounterName(x)

Changed(k) ==
    \/ (k \in DOMAIN store) # (k \in DOMAIN store')
    \/ k \in DOMAIN store /\ k \in DOMAIN store' /\ store[k] # store'[k]

\* every store operation of an Allow call for x reads and writes under the
\* names counter and marker and under no other key
KeysOfAllow(p, counter, marker) ==
    ( /\ calls'[p] # calls[p]
      /\ calls[p].pc \in {"IsBlocked", "Increment", "Block", "Reset"} )
    => /\ \A k \in DOMAIN store \cup DOMAIN store' :
              Changed(k) => k \in {counter, marker}
       /\ calls[p].pc = "IsBlocked"
             => (calls'[p].pc = "done" <=> StoreIsBlocked(store, marker))
       /\ calls[p].pc = "Increment"
             => /\ counter \in DOMAIN store'
                /\ store'[counter].num = calls'[p].count
       /\ calls[p].pc = "Block"
             => StoreIsBlocked(store', marker)
       /\ calls[p].pc = "Reset"
             => counter \notin DOMAIN store'

\* C15 as stated: the counter of a token identity is kept under
\* "credential_"+identifier, that of an IP identity under
\* "address_"+identifier, the marker of either under "blocked_"+that key,
\* and an Allow call touches no other key.
C15_DocumentedKeys ==
    [][ \A p \in Procs :
          KeysOfAllow(p, DocCounterName(IdentityOf(calls[p])),
                         DocMarkerName(IdentityOf(calls[p]))) ]_vars

\* C15 amended: the counter of a token identity is kept under
\* "token_"+identifier, that of an IP identity under "ip_"+identifier, the
\* marker of either under "blocked_"+that key, and an Allow call touches
\* no other key.
C15_KeysOfAllow ==
    [][ \A p \in Procs :
          KeysOfAllow(p, CounterName(IdentityOf(calls[p])),
                         MarkerName(IdentityOf(calls[p]))) ]_vars

C15_Witness ==
    \E x, y \in Identities :
        /\ x[1] /\ ~y[1]
        /\ StoreIsBlocked(store, MarkerName(x))
        /\ CounterName(x) \notin DOMAIN store
        /\ CounterName(y) \in DOMAIN store
        /\ store[CounterName(y)].num = 1

----------------------------------------------------------------------------
(* The block episode of an identity under concurrent calls (SpecConc) *)

\* C16: while the block marker of an identity is set, whatever the
\* interleaving of the concurrent Allow calls, Block is not invoked again
\* for that identity and the remaining life of the marker never grows.
C16_BlockOncePerEpisode ==
    [][ /\ \A p \in Procs :
              (calls[p].pc = "Block" /\ calls'[p] # calls[p])
                  => MarkerName(IdentityOf(calls[p])) \notin DOMAIN store
        /\ \A x \in Identities :
              ( /\ MarkerName(x) \in DOMAIN store
                /\ MarkerName(x) \in DOMAIN store' )
                  => store'[MarkerName(x)].ttl <= store[MarkerName(x)].ttl
      ]_vars

\* no Allow call for x is between its entry and its return
Returned(x) ==
    \A p \in Procs :
        IdentityOf(calls[p]) = x => calls[p].pc \in {"idle", "done"}

\* C17: under every interleaving of concurrent Allow calls against a
\* reliable store, once the calls for an identity have returned, its block
\* marker and its window counter are never both in the store.
C17_BlockedAndCountingExclusive ==
    \A x \in Identities :
        (Returned(x) /\ MarkerName(x) \in DOMAIN store)
            => CounterName(x) \notin DOMAIN store

\* the calls for x that have entered Allow and not yet got their decision
Pending(x) ==
    { p \in Procs : /\ IdentityOf(calls[p]) = x
                    /\ calls[p].pc \in {"IsBlocked", "Increment", "Block",
                                        "Reset"} }

\* C18: under every interleaving against a reliable store, when no more
\* than N calls for an identity fall within the lifetime of its counter
\* (N its class limit), every one of them returns (true, nil) and no block
\* marker is set for the identity; so N concurrent calls for each of two
\* identities are all allowed.
C18_WithinLimitAllAllowed ==
    \A x \in Identities :
        ( /\ run[x].valid
          /\ Len(run[x].seq) + Cardinality(Pending(x)) <= ClassLimit(x) )
        => /\ \A j \in 1..Len(run[x].seq) : run[x].seq[j] = Allowed
           /\ MarkerName(x) \notin DOMAIN store
           /\ \A p \in DoneCalls :
                  IdentityOf(calls[p]) = x => Decision(calls[p]) = Allowed

C18_Witness ==
    \E x, y \in Identities :
        /\ x # y
        /\ run[x].valid /\ run[y].valid
        /\ Len(run[x].seq) = ClassLimit(x)
        /\ Len(run[y].seq) >= 1
        /\ Len(run[y].seq) <= ClassLimit(y)
        /\ \E p, q \in DoneCalls :
               /\ p # q
               /\ IdentityOf(calls[p]) = x
               /\ IdentityOf(calls[q]) = x
               /\ Decision(calls[p]) = Allowed
               /\ Decision(calls[q]) = Allowed

----------------------------------------------------------------------------
(* The order of the store operations of one call (SpecFailOne) *)

\* the step of goroutine p was a store operation that failed
FailedStep(p) == calls'[p].failed = calls[p].pc

\* C19: an Allow call invokes IsBlocked, Increment, Block and Reset at most
\* once each and in that order: Increment only after IsBlocked returned
\* false without error, Block only after Increment succeeded with a count
\* above the class limit, Reset only after Block succeeded; after a failed
\* operation the call returns without invoking any operation again.
C19_OperationsOnceInOrder ==
    [][ \A p \in Procs :
          calls'[p] # calls[p] =>
            LET x == IdentityOf(calls[p])
            IN  CASE calls[p].pc = "idle" -> calls'[p].pc = "IsBlocked"
                  [] calls[p].pc = "IsBlocked" ->
                        IF ~FailedStep(p) /\ MarkerName(x) \notin DOMAIN store
                        THEN calls'[p].pc = "Increment"
                        ELSE calls'[p].pc = "done"
                  [] calls[p].pc = "Increment" ->
                        IF ~FailedStep(p) /\ calls'[p].count > ClassLimit(x)
                        THEN calls'[p].pc = "Block"
                        ELSE calls'[p].pc = "done"
                  [] calls[p].pc = "Block" ->
                        IF ~FailedStep(p)
                        THEN calls'[p].pc = "Reset"
                        ELSE calls'[p].pc = "done"
                  [] calls[p].pc = "Reset" -> calls'[p].pc = "done"
                  [] calls[p].pc = "done" -> calls'[p].pc = "idle"
                  [] OTHER -> FALSE ]_vars

C19_Witness ==
    /\ \E p \in DoneCalls :
           /\ calls[p].failed = "none"
           /\ calls[p].count > ClassLimit(IdentityOf(calls[p]))
           /\ Decision(calls[p]) = Denied
    /\ \E p \in DoneCalls : calls[p].failed = "Block"

\* C20: when the count exceeded the limit, Block succeeded and Reset fails,
\* Allow returns (false, nil); the failure leaves the store as it is, so
\* the marker keeps the life that remains of its configured duration; and
\* a call that enters while the marker is present is never admitted.
C20_ResetFailureKeepsBlock ==
    [][ \A p \in Procs :
          LET x == IdentityOf(calls[p])
          IN  /\ ( /\ calls[p].pc = "Reset"
                   /\ calls'[p] # calls[p]
                   /\ FailedStep(p) )
                 => /\ calls'[p].pc = "done"
                    /\ Decision(calls'[p]) = Denied
                    /\ store' = store
                    /\ (blockAge[x] >= 0 /\ blockAge[x] < ClassDuration(x))
                          => /\ StoreIsBlocked(store', MarkerName(x))
                             /\ store'[MarkerName(x)].ttl =
                                    ClassDuration(x) - blockAge[x]
              /\ ( /\ calls[p].pc = "IsBlocked"
                   /\ calls'[p] # calls[p]
                   /\ StoreIsBlocked(store, MarkerName(x)) )
                 => /\ calls'[p].pc = "done"
                    /\ calls'[p].allowed = FALSE ]_vars

C20_Witness ==
    \E p, q \in DoneCalls :
        LET x == IdentityOf(calls[p])
        IN  /\ calls[p].failed = "Reset"
            /\ Decision(calls[p]) = Denied
            /\ StoreIsBlocked(store, MarkerName(x))
            /\ CounterName(x) \in DOMAIN store
            /\ store[CounterName(x)].num > ClassLimit(x)
            /\ q # p
            /\ IdentityOf(calls[q]) = x
            /\ calls[q].failed = "none"
            /\ calls[q].count = 0
            /\ Decision(calls[q]) = Denied

\* the call of q for x ended in a failed Block and the counter it left
\* over the limit is still in the store
BlockFailedFor(q, x) ==
    /\ calls[q].pc = "done"
    /\ calls[q].failed = "Block"
    /\ IdentityOf(calls[q]) = x
    /\ CounterName(x) \in DOMAIN store
    /\ store[CounterName(x)].num >= calls[q].count

\* C22: when the count is above the limit and Block fails, Allow returns
\* the Block error and leaves the store as it is (no Reset: the counter
\* keeps its value above the limit); while that counter lives, no call for
\* the identity gets allowed = true.
C22_BlockFailureNeverAdmits ==
    [][ \A p \in Procs :
          LET x == IdentityOf(calls[p])
          IN  /\ ( /\ calls[p].pc = "Block"
                   /\ calls'[p] # calls[p]
                   /\ FailedStep(p) )
                 => /\ calls'[p].pc = "done"
                    /\ calls'[p].allowed = FALSE
                    /\ ErrorStep(calls'[p].err) = ErrBlock
                    /\ calls[p].count > ClassLimit(x)
                    /\ store' = store
              /\ ( /\ calls'[p] # calls[p]
                   /\ calls'[p].pc = "done"
                   /\ \E q \in Procs \ {p} : BlockFailedFor(q, x) )
                 => calls'[p].allowed = FALSE ]_vars

C22_Witness ==
    \E p, q \in DoneCalls :
        /\ p # q
        /\ IdentityOf(calls[p]) = IdentityOf(calls[q])
        /\ calls[q].failed = "Block"
        /\ ErrorStep(calls[q].err) = ErrBlock
        /\ calls[p].failed = "none"
        /\ calls[p].count = calls[q].count + 1
        /\ Decision(calls[p]) = Denied

----------------------------------------------------------------------------
(* Cancellation of the caller's context (SpecCancel) *)

\* every window counter in st has its expiry armed
CountersArmed(st) ==
    \A x \in Identities :
        CounterName(x) \in DOMAIN st => st[CounterName(x)].ttl > 0

\* C21 as stated: when the context is cancelled while Allow awaits
\* IsBlocked, Increment, Block or Reset, Allow returns an error, and no
\* counter is left incremented without its expiry armed.
C21_CancelledReturnsError ==
    [][ /\ \A p \in Procs :
              (calls'[p] # calls[p] /\ FailedStep(p))
                  => /\ calls'[p].pc = "done"
                     /\ calls'[p].err # ErrNil
        /\ CountersArmed(store') ]_vars

\* C21 amended: when the context is cancelled while Allow awaits
\* IsBlocked, Increment or Block, Allow returns an error and allowed =
\* false; when it is cancelled while Allow awaits Reset, Allow returns
\* (false, nil); in every case no counter is left incremented without its
\* expiry armed.
C21_CancelledReturns ==
    [][ /\ \A p \in Procs :
              (calls'[p] # calls[p] /\ FailedStep(p))
                  => /\ calls'[p].pc = "done"
                     /\ calls'[p].allowed = FALSE
                     /\ calls[p].pc \in {"IsBlocked", "Increment", "Block"}
                           => calls'[p].err # ErrNil
                     /\ calls[p].pc = "Reset"
                           => calls'[p].err = ErrNil
        /\ CountersArmed(store') ]_vars

C21_Witness ==
    /\ \E p \in DoneCalls :
           /\ calls[p].failed = "Increment"
           /\ CounterName(IdentityOf(calls[p])) \in DOMAIN store
           /\ store[CounterName(IdentityOf(calls[p]))].num = 1
    /\ \E p \in DoneCalls : calls[p].failed = "Reset"

----------------------------------------------------------------------------
(* The window counter in the store of redis.go *)

\* C23: with the Lua script of RedisStore.Increment, under every
\* interleaving of Increment, Reset and key expiry, every window counter
\* in the store has an expiry armed, of no more than the window: the
\* increment that creates the key and the arming are one step.
C23_CounterAlwaysExpires ==
    \A x \in Identities :
        CounterName(x) \in DOMAIN store =>
            /\ store[CounterName(x)].kind = "int"
            /\ store[CounterName(x)].num >= 1
            /\ store[CounterName(x)].ttl >= 1
            /\ store[CounterName(x)].ttl <= WindowSeconds

C23_Witness ==
    \E x \in Identities :
        /\ StoreIsBlocked(store, MarkerName(x))
        /\ CounterName(x) \in DOMAIN store
        /\ store[CounterName(x)].num = 1
        /\ Returned(x)

\* C25: Increment on a counter key that exists raises the count by exactly
\* one and leaves the remaining life of the key as it is, so the window
\* ends when the first increment set it to end however many increments
\* follow; the increment of Allow that creates the key gives it a life of
\* one second whatever the configuration.
C25_FixedWindow ==
    [][ /\ \A x \in Identities :
              LET k == CounterName(x)
              IN  ( /\ k \in DOMAIN store
                    /\ k \in DOMAIN store'
                    /\ store'[k] # store[k] )
                  => \/ /\ store'[k].num = store[k].num + 1
                        /\ store'[k].ttl = store[k].ttl
                     \/ /\ store'[k].num = store[k].num
                        /\ store'[k].ttl = store[k].ttl - 1
        /\ \A p \in Procs :
              LET k == CounterName(IdentityOf(calls[p]))
              IN  ( /\ calls[p].pc = "Increment"
                    /\ calls'[p] # calls[p] )
                  => /\ k \in DOMAIN store'
                     /\ calls'[p].count = store'[k].num
                     /\ k \in DOMAIN store
                           => /\ store'[k].num = store[k].num + 1
                              /\ store'[k].ttl = store[k].ttl
                     /\ k \notin DOMAIN store
                           => /\ store'[k].num = 1
                              /\ store'[k].ttl = 1 ]_vars

C25_Witness ==
    \E p \in DoneCalls :
        LET k == CounterName(IdentityOf(calls[p]))
        IN  /\ calls[p].count >= 2
            /\ k \in DOMAIN store
            /\ store[k].num = calls[p].count
            /\ store[k].ttl > 1

----------------------------------------------------------------------------
(* The window counter in the store of the earlier revision (SpecTx) *)

\* no Increment for x is between its first and its last command
NotIncrementing(x) ==
    \A p \in Procs :
        IdentityOf(calls[p]) = x
            => calls[p].pc \notin {"Increment", "TxPipeIncr", "TxPipeExpire",
                                   "TxIncr"}

\* C24: with incrementWithTx, under every interleaving of concurrent
\* Increment calls and key expiry, the increment and the first arming of
\* the expiry are indivisible: once the Increment calls for a key have
\* returned, the key is never left in the store without an expiry.
C24_TxCounterAlwaysExpires ==
    \A x \in Identities :
        (NotIncrementing(x) /\ CounterName(x) \in DOMAIN store)
            => store[CounterName(x)].ttl >= 1

\* C26: the counts Increment has returned for one key during one life of
\* its counter are exactly 1, 2, ..., k in the order of their return, k
\* being the value the counter holds: none is returned twice and none is
\* skipped, however the calls of concurrent callers interleave
C26_CountsGaplessNoDuplicates ==
    \A x \in Identities :
        IF CounterName(x) \in DOMAIN store
        THEN /\ Len(issued[x]) = store[CounterName(x)].num
             /\ \A j \in 1..Len(issued[x]) : issued[x][j] = j
        ELSE issued[x] = <<>>

\* three counts returned in one life of a counter, two of them to calls
\* that were in progress at the same time
C26_Witness ==
    \E x \in Identities : \E p, q \in Procs :
        /\ p # q
        /\ Len(issued[x]) >= 3
        /\ IdentityOf(calls[p]) = x /\ IdentityOf(calls[q]) = x
        /\ calls[p].pc = "Block" /\ calls[q].pc = "Block"
        /\ calls[p].count # calls[q].count

\* C27: the step of Allow that receives the count of a token call sends
\* it to Block exactly when the count exceeds MaxRequestsPerToken and the
\* marker its Block writes lives BlockDurationTokenSeconds; a call by
\* address is judged by MaxRequestsPerIP and blocked for
\* BlockDurationIPSeconds. Neither uses the values of the other class.
C27_ClassLimitAndDuration ==
    [][\A p \in Procs :
          LET x == IdentityOf(calls[p])
          IN  /\ ( /\ calls[p].pc = "Increment"
                   /\ calls'[p].pc \in {"Block", "done"}
                   /\ calls'[p].count > 0 )
                    => /\ (calls'[p].pc = "Block")
                           = (calls'[p].count > ClassLimit(x))
                       /\ (calls'[p].pc = "done"
                              => calls'[p].allowed /\ calls'[p].err = ErrNil)
              /\ ( calls[p].pc = "Block" /\ calls'[p].pc = "Reset" )
                    => /\ MarkerName(x) \in DOMAIN store'
                       /\ store'[MarkerName(x)].ttl = ClassDuration(x)
      ]_vars

\* a token call denied at a count the limit by address admits, its marker
\* living the token duration, which differs from the duration by address
C27_Witness ==
    \E p \in Procs :
        LET x == IdentityOf(calls[p])
        IN  /\ x[1]
            /\ calls[p].pc = "Reset"
            /\ calls[p].count > limiterConfig.MaxRequestsPerToken
            /\ calls[p].count <= limiterConfig.MaxRequestsPerIP
            /\ MarkerName(x) \in DOMAIN store
            /\ store[MarkerName(x)].ttl
                   = limiterConfig.BlockDurationTokenSeconds
            /\ limiterConfig.BlockDurationTokenSeconds
                   # limiterConfig.BlockDurationIPSeconds

\* the step in which the call of p returns (false, nil)
DeniesNow(p) ==
    /\ calls[p].pc \notin {"idle", "done"}
    /\ calls'[p].pc = "done"
    /\ ~calls'[p].allowed
    /\ calls'[p].err = ErrNil

\* the store holds the block marker of x
MarkerIn(st, x) ==
    /\ MarkerName(x) \in DOMAIN st
    /\ st[MarkerName(x)].kind = "str"
    /\ st[MarkerName(x)].str = "blocked"

\* C28: a call returns (false, nil) either from its IsBlocked, which then
\* found the marker of its identity in the store, or after its Block,
\* which wrote the marker: the call is past Block only if Block succeeded,
\* and the step in which Block succeeds leaves the marker in the store.
\* Failures of store operations, also after the server executed them, are
\* included.
C28_DenialHasMarker ==
    [][\A p \in Procs :
          LET x == IdentityOf(calls[p])
          IN  /\ DeniesNow(p) =>
                    \/ calls[p].pc = "IsBlocked" /\ MarkerIn(store, x)
                    \/ calls[p].pc = "Reset"
              /\ calls'[p].pc = "Reset" /\ calls[p].pc # "Reset" =>
                    calls[p].pc = "Block" /\ MarkerIn(store', x)
      ]_vars

\* one call denied after its own Block and a later one denied by IsBlocked
C28_Witness ==
    \E p, q \in Procs :
        /\ p # q
        /\ IdentityOf(calls[p]) = IdentityOf(calls[q])
        /\ calls[p].pc = "done" /\ Decision(calls[p]) = Denied
        /\ calls[p].count > 0
        /\ calls[q].pc = "done" /\ Decision(calls[q]) = Denied
        /\ calls[q].count = 0
        /\ MarkerIn(store, IdentityOf(calls[p]))

\* C29: in every reachable state the window counter of an identity is at
\* most the limit of its class plus one
C29_CounterAtMostLimitPlusOne ==
    \A x \in Identities :
        CounterName(x) \in DOMAIN store
            => store[CounterName(x)].num <= ClassLimit(x) + 1

\* the requests in service that carry a token
TokenRequests ==
    { p \in Procs : http[p].phase = "allow" /\ HeaderToken(p) # <<>> }

\* the steps of the Allow call made for the request of p
StepOf(p) ==
    /\ calls[p].pc \in {"IsBlocked", "Increment", "Block", "Reset"}
    /\ calls'[p] # calls[p]

\* C30: the Allow call made for a request with a token is a call for the
\* token; its steps leave the counter and the marker of every address as
\* they are; its IsBlocked denies exactly when the marker of the token is
\* in the store, and a count within the limit of tokens admits it,
\* whether or not the address of the request is blocked
C30_TokenRequestIgnoresAddress ==
    [][\A p \in TokenRequests :
          LET x == <<TRUE, HeaderToken(p)>>
          IN  /\ calls[p].pc # "idle" => IdentityOf(calls[p]) = x
              /\ StepOf(p) =>
                    \A id \in Identifiers :
                        /\ ~Changed(CounterName(<<FALSE, id>>))
                        /\ ~Changed(MarkerName(<<FALSE, id>>))
              /\ StepOf(p) /\ calls[p].pc = "IsBlocked"
                           /\ calls'[p].err = ErrNil =>
                    (calls'[p].pc = "done") = MarkerIn(store, x)
              /\ StepOf(p) /\ calls[p].pc = "Increment"
                           /\ calls'[p].count \in 1..ClassLimit(x) =>
                    /\ calls'[p].pc = "done"
                    /\ calls'[p].allowed
                    /\ calls'[p].err = ErrNil
      ]_vars

\* a request with a token that arrived while its address was blocked has
\* been answered 200
C30_Witness ==
    \E p \in Procs :
        /\ http[p].phase = "responded"
        /\ http[p].status = StatusOK
        /\ HeaderToken(p) # <<>>
        /\ HostOf(p).ok
        /\ http[p].addrBlocked
        /\ MarkerIn(store, <<FALSE, HostOf(p).host>>)

----------------------------------------------------------------------------
(* Several engine instances on one store, in a process whose environment   *)
(* changes after they were constructed.                                    *)

\* the environment main finds when it loads the configuration
ConstructionEnv ==
    [file |-> TRUE,
     vars |-> [n \in EnvNames |->
                  CASE n = "MAX_REQUESTS_PER_IP"          -> <<"1">>
                    [] n = "MAX_REQUESTS_PER_TOKEN"       -> <<"1">>
                    [] n = "BLOCK_DURATION_IP_SECONDS"    -> <<"1">>
                    [] n = "BLOCK_DURATION_TOKEN_SECONDS" -> <<"2">>
                    [] OTHER                              -> <<>>]]

\* the configuration NewRateLimiter receives
ConstructionConfig == LoadConfigRateLimiter(ConstructionEnv).config

\* NewRateLimiter called once per goroutine with the one configuration
\* that was loaded and the one store; limiterConfig is the field of the
\* single instance of the reference run
InitTwo ==
    /\ env = ConstructionEnv
    /\ limiterConfig = ConstructionConfig
    /\ engines = [p \in Procs |-> ConstructionConfig]
    /\ store = EmptyStore
    /\ calls = [p \in Procs |-> IdleCall]
    /\ ncalls = 0
    /\ got = [p \in Procs |-> NoConfig]
    /\ http = [p \in Procs |-> IdleHttp]
    /\ run = [x \in Identities |-> NewRun]
    /\ blockAge = [x \in Identities |-> 0 - 1]
    /\ omit = [on |-> TRUE, id |-> <<FALSE, <<>>>>]
    /\ sstore = EmptyStore
    /\ scalls = [p \in Procs |-> IdleCall]
    /\ forwarded = [f \in ForwardedAddrs |-> 0]
    /\ issued = [x \in Identities |-> <<>>]
    /\ probe = NoProbe

\* what one call does next when its decision is a function of the keys of
\* its identity in the store and of the limits given at construction:
\* denied when the marker holds "blocked", else counted (an error when the
\* counter holds no integer; a count of 1 starts the window), and past the
\* limit the marker is written for the block duration, without expiry
\* when the duration is not positive, and the counter removed
ReferenceStep(st, c) ==
    LET x       == IdentityOf(c)
        counter == CounterName(x)
        marker  == MarkerName(x)
        held    == counter \in DOMAIN st
        n       == IF held THEN st[counter].num + 1 ELSE 1
        counted == IF n = 1
                   THEN Put(st, counter, IntEntry(1, WindowSeconds))
                   ELSE [st EXCEPT ![counter].num = n]
        life    == IF ClassDuration(x) > 0 THEN ClassDuration(x)
                                           ELSE NoExpiry
    IN  CASE c.pc = "IsBlocked" ->
                 IF /\ marker \in DOMAIN st
                    /\ st[marker].kind = "str"
                    /\ st[marker].str = "blocked"
                 THEN [store |-> st, call |-> Return(c, FALSE, ErrNil)]
                 ELSE [store |-> st, call |-> [c EXCEPT !.pc = "Increment"]]
          [] c.pc = "Increment" ->
                 IF held /\ st[counter].kind # "int"
                 THEN [store |-> st,
                       call  |-> Return(c, FALSE,
                                        <<ErrIncrement, ErrStoreEval,
                                          Cause("reply")>>)]
                 ELSE IF n > ClassLimit(x)
                 THEN [store |-> counted,
                       call  |-> [c EXCEPT !.pc = "Block", !.count = n]]
                 ELSE [store |-> counted,
                       call  |-> Return([c EXCEPT !.count = n],
                                        TRUE, ErrNil)]
          [] c.pc = "Block" ->
                 [store |-> Put(st, marker, StrEntry("blocked", life)),
                  call  |-> [c EXCEPT !.pc = "Reset"]]
          [] c.pc = "Reset" ->
                 [store |-> Del(st, counter),
                  call  |-> Return(c, FALSE, ErrNil)]
          [] OTHER -> [store |-> st, call |-> c]

\* the next step of the Allow call of p through the instance of p, which
\* assigns no field of the instance and no variable of the process, and
\* the same step of the same call in the reference run
AllowVia(p) ==
    LET c == calls[p]
        r == AllowStep(store, engines[p], c, "ok")
        s == ReferenceStep(sstore, scalls[p])
    IN  /\ c.pc \in {"IsBlocked", "Increment", "Block", "Reset"}
        /\ store' = r.store
        /\ calls' = [calls EXCEPT ![p] = Observe(c, "ok", r.call)]
        /\ sstore' = s.store
        /\ scalls' = [scalls EXCEPT ![p] = s.call]
        /\ run' = [x \in Identities |-> RunAfter(x, c, "ok", r.call)]
        /\ blockAge' = [x \in Identities |-> AgeAfter(x, c, r.call)]
        /\ issued' = [x \in Identities |->
                          IssuedAfter(x, r.store,
                                      CountReturned(x, c, r.call))]
        /\ UNCHANGED <<limiterConfig, env, ncalls, got, http, omit,
                       forwarded, engines, probe>>

NextTwo ==
    \/ \E p \in Procs, t \in BOOLEAN : AllowCall(p, <<"a">>, t)
    \/ \E p \in Procs : AllowVia(p)
    \/ \E p \in Procs : AllowReturn(p)
    \/ Elapse
    \/ \E v \in EnvValues["MAX_REQUESTS_PER_IP"] :
           SetEnv("MAX_REQUESTS_PER_IP", v)

SpecTwo == InitTwo /\ [][NextTwo]_vars

\* C31: while the environment of the process changes, every instance
\* keeps the configuration NewRateLimiter gave it, and
\* the calls made through one instance per goroutine, all on one store,
\* leave at every step the store and the results that the same calls leave
\* when each decision is taken from the store and the construction-time
\* limits alone
C31_InstancesEquivalent ==
    /\ \A p \in Procs : engines[p] = ConstructionConfig
    /\ store = sstore
    /\ calls = scalls

\* two instances have served the same address after the limit in the
\* environment was unset: one admitted, the other denied on the count the
\* first one left in the store, which the limit now in the environment
\* would admit
C31_Witness ==
    \E p, q \in Procs :
        /\ p # q
        /\ IdentityOf(calls[p]) = IdentityOf(calls[q])
        /\ ~calls[q].isToken
        /\ calls[p].pc = "done" /\ Decision(calls[p]) = Allowed
        /\ DeniedOverLimit(calls[q])
        /\ calls[q].count = calls[p].count + 1
        /\ env.vars["MAX_REQUESTS_PER_IP"] = <<>>
        /\ GetConfig(env).config.MaxRequestsPerIP >= calls[q].count

----------------------------------------------------------------------------
(* Concurrent requests, each in its own goroutine, on a reliable store.    *)

\* the requests the HTTP server hands to the handler: RemoteAddr is the
\* "IP:port" of the connection
SentRequests == { req \in Requests : SplitHostPort(req.remoteAddr).ok }

NextHttpLive ==
    \/ \E p \in Procs, req \in SentRequests : Serve(p, req)
    \/ \E p \in Procs : IsBlocked(p, "ok")
    \/ \E p \in Procs : Increment(p, "ok")
    \/ \E p \in Procs : Block(p, "ok")
    \/ \E p \in Procs : Reset(p, "ok")
    \/ \E p \in Procs : Respond(p)
    \/ Elapse

\* every goroutine that serves a request keeps running and the store
\* replies to every operation
FairHttp ==
    \A p \in Procs :
        /\ WF_vars(IsBlocked(p, "ok"))
        /\ WF_vars(Increment(p, "ok"))
        /\ WF_vars(Block(p, "ok"))
        /\ WF_vars(Reset(p, "ok"))
        /\ WF_vars(Respond(p))

SpecHttpLive == Init /\ [][NextHttpLive]_vars /\ FairHttp

\* the requests answered with the given status
Answered(status) ==
    { p \in Procs : http[p].phase = "responded" /\ http[p].status = status }

\* C32: with a store that answers every operation, once every goroutine
\* has a request in service all of them get answered, and the answers
\* with 200 and with 429 together are as many as the requests; no request
\* is answered with any other status
C32_AllAnsweredOkOrTooMany ==
    /\ [](\A p \in Procs :
            http[p].phase = "responded"
                => http[p].status \in {StatusOK, StatusTooManyRequests})
    /\ (\A p \in Procs : http[p].phase # "none")
          ~> (Cardinality(Answered(StatusOK))
                + Cardinality(Answered(StatusTooManyRequests))
              = Cardinality(Procs))

\* all requests answered, some with 200 and some with 429
C32_Witness ==
    /\ \A p \in Procs : http[p].phase = "responded"
    /\ Answered(StatusOK) # {}
    /\ Answered(StatusTooManyRequests) # {}

\* the calls that have returned an error
ErrorCalls == { p \in Procs : calls[p].err # ErrNil }

\* C33: an error of Allow comes from a failed IsBlocked, Increment or
\* Block, never from a failed Reset; it consists of a step label followed
\* by the error of the store, which ends in the cause the client reported;
\* two errors carry the same label exactly when the same step failed
C33_ErrorNamesFailedStep ==
    /\ \A p \in Procs : calls[p].failed = "Reset" => calls[p].err = ErrNil
    /\ \A p \in ErrorCalls :
          /\ calls[p].failed \in {"IsBlocked", "Increment", "Block"}
          /\ Len(calls[p].err) >= 2
          /\ calls[p].err[Len(calls[p].err)] \in Causes
    /\ \A p, q \in ErrorCalls :
          (Head(calls[p].err) = Head(calls[q].err))
              = (calls[p].failed = calls[q].failed)

\* two calls have returned errors of different steps
C33_Witness ==
    \E p, q \in ErrorCalls :
        /\ calls[p].failed = "Block"
        /\ calls[q].failed \in {"IsBlocked", "Increment"}
        /\ Head(calls[p].err) # Head(calls[q].err)

\* a request without a token whose RemoteAddr is no host:port
Unidentifiable(h) ==
    /\ h.phase # "none"
    /\ h.req.header[limiterConfig.TokenHeaderName] = <<>>
    /\ ~SplitHostPort(h.req.remoteAddr).ok

\* C34: the step in which the middleware takes a request without a token
\* whose RemoteAddr cannot be split answers it with 500 and changes
\* neither the store nor the Allow call of the goroutine; as long as the
\* request is in service no Allow call was made for it and the next
\* handler was not invoked
C34_UnsplittableAddressIs500 ==
    /\ [](\A p \in Procs :
            Unidentifiable(http[p])
                => /\ http[p].phase = "responded"
                   /\ http[p].status = StatusInternalServerError
                   /\ http[p].allowCalls = 0
                   /\ http[p].nextCalls = 0
                   /\ calls[p].pc = "idle")
    /\ [][\A p \in Procs :
            http[p].phase = "none" /\ Unidentifiable(http'[p])
                => store' = store /\ calls' = calls]_vars

\* such a request answered while the store holds a counter of other
\* requests
C34_Witness ==
    \E p \in Procs :
        /\ Unidentifiable(http[p])
        /\ http[p].status = StatusInternalServerError
        /\ store # EmptyStore

----------------------------------------------------------------------------
(* A backend whose script may return something that is no integer.         *)

IncrementOutcomes == {"ok", "err", "late", "odd"}

NextOdd ==
    \/ \E p \in Procs, t \in BOOLEAN : AllowCall(p, <<"a">>, t)
    \/ \E p \in Procs : IsBlocked(p, "ok")
    \/ \E p \in Procs, o \in IncrementOutcomes : Increment(p, o)
    \/ \E p \in Procs : Block(p, "ok")
    \/ \E p \in Procs : Reset(p, "ok")
    \/ \E p \in Procs : AllowReturn(p)
    \/ Elapse

SpecOdd == Init /\ [][NextOdd]_vars

\* the calls whose Increment failed
IncrementFailed == { p \in Procs : calls[p].failed = "Increment" }

\* C35: a call whose Increment failed returns an error and has no count.
\* When the script's result was no integer the error is the label of the
\* step followed by "resultado inesperado do script Lua" and wraps no
\* cause; when the command failed it is the label followed by "erro ao
\* executar script Lua INCR com EXPIRE" and the cause the client reported.
\* The error of the one case is never the error of the other.
C35_UnexpectedResultDistinct ==
    /\ \A p \in IncrementFailed :
          /\ calls[p].pc = "done"
          /\ ~calls[p].allowed
          /\ calls[p].count = 0
          /\ IF calls[p].reply = "odd"
             THEN calls[p].err = <<"erro ao incrementar contador",
                                   "resultado inesperado do script Lua">>
             ELSE /\ Len(calls[p].err) = 3
                  /\ calls[p].err[1] = "erro ao incrementar contador"
                  /\ calls[p].err[2]
                        = "erro ao executar script Lua INCR com EXPIRE"
                  /\ calls[p].err[3] \in Causes
    /\ \A p, q \in IncrementFailed :
          (calls[p].reply = "odd") # (calls[q].reply = "odd")
              => calls[p].err # calls[q].err

\* one call met a result that is no integer, another a failed command
C35_Witness ==
    \E p, q \in IncrementFailed :
        /\ calls[p].reply = "odd"
        /\ calls[q].reply = "err"
        /\ calls[p].err # calls[q].err

----------------------------------------------------------------------------
(* The keys of Allow as a function of class, identifier and kind.          *)

\* identifiers are put together from the pieces the keys are made of
Pieces ==
    { <<"a">>, <<"i", "p", "_">>, <<"t", "o", "k", "e", "n", "_">>,
      <<"b", "l", "o", "c", "k", "e", "d", "_">> }

RECURSIVE Joined(_)
Joined(n) ==
    IF n = 0 THEN { <<>> }
    ELSE Joined(n - 1) \cup { s \o t : s \in Joined(n - 1), t \in Pieces }

ProbeTargets ==
    [isToken : BOOLEAN, identifier : Joined(MaxPieces), marker : BOOLEAN]

InitKeys ==
    /\ store = EmptyStore
    /\ limiterConfig = DefaultConfig
    /\ engines = [p \in Procs |-> DefaultConfig]
    /\ env = InitEnv
    /\ calls = [p \in Procs |-> IdleCall]
    /\ ncalls = 0
    /\ got = [p \in Procs |-> NoConfig]
    /\ http = [p \in Procs |-> IdleHttp]
    /\ run = [x \in Identities |-> NewRun]
    /\ blockAge = [x \in Identities |-> 0 - 1]
    /\ omit = NoOmit
    /\ sstore = EmptyStore
    /\ scalls = [p \in Procs |-> IdleCall]
    /\ forwarded = [f \in ForwardedAddrs |-> 0]
    /\ issued = [x \in Identities |-> <<>>]
    /\ probe \in { [NoProbe EXCEPT !.a = x, !.b = y] :
                       x \in ProbeTargets, y \in ProbeTargets }

\* key := keyPrefix + identifier; blockedKey := "blocked_" + key
BuildKeys ==
    /\ ~probe.built
    /\ probe' = [probe EXCEPT !.built = TRUE,
                              !.ka = StoreKey(probe.a),
                              !.kb = StoreKey(probe.b)]
    /\ UNCHANGED <<store, limiterConfig, env, calls, ncalls, got, http,
                   run, blockAge, omit, sstore, scalls, forwarded, issued,
                   engines>>

NextKeys == BuildKeys

SpecKeys == InitKeys /\ [][NextKeys]_vars

\* C36: two keys built by Allow are equal only for the same class, the
\* same identifier and the same kind of key; in particular a counter key
\* is never a block-marker key and a key by address never a key by token
C36_KeysInjective ==
    probe.built =>
        /\ probe.ka = probe.kb => probe.a = probe.b
        /\ probe.a.marker # probe.b.marker => probe.ka # probe.kb
        /\ probe.a.isToken # probe.b.isToken => probe.ka # probe.kb

\* keys built for a token and for an address whose identifier is that
\* token behind "token_", and for an address whose identifier starts
\* with "blocked_"
C36_Witness ==
    /\ probe.built
    /\ probe.a.isToken /\ ~probe.a.marker
    /\ ~probe.b.isToken /\ ~probe.b.marker
    /\ probe.b.identifier
          = <<"t", "o", "k", "e", "n", "_">> \o probe.a.identifier
    /\ probe.ka # probe.kb

====
